---- MODULE Spec2Model ----
(***************************************************************************)
(* A model of the paper-trading core (src/trading.py): the price cache,    *)
(* the user ledger, the trade engine and the login-streak tracker.         *)
(*                                                                         *)
(* Units.  Python floats are modelled as scaled integers:                  *)
(*   money    : cents                (dollars * 100)                       *)
(*   quantity : hundredths of a share (round(q, 2) * 100)                  *)
(*   price    : mills                (dollars * 1000; the feed's closes    *)
(*              are not rounded, so they carry one digit more than money)  *)
(*   requested sell quantity : thousandths of a share (before round(., 2)) *)
(*   time     : whole seconds since the epoch, UTC                         *)
(* round(x, 2) is Round below (nearest, ties to even, on the exact value). *)
(* The two MongoDB collections are sequences of documents in insertion     *)
(* order; find_one returns the first match.                                *)
(***************************************************************************)
EXTENDS Integers, Sequences, FiniteSets, TLC

VARIABLES
    users,      \* users_collection: sequence of user documents
    stocks,     \* stocks_collection: sequence of price-cache documents
    now,        \* datetime.utcnow(), in seconds
    result,     \* what the last completed call returned (or raised)
    calls,      \* number of ledger calls made so far
    rewardLog,  \* history: the times of the calls that returned reward=100
    threads,    \* the requests in flight (interleaved specification)
    lots        \* history: the purchases of the symbols not sold since, in order

vars == <<users, stocks, now, result, calls, rewardLog, threads, lots>>

----------------------------------------------------------------------------
(* Program constants *)

None == -1                  \* Python None, for an absent timestamp
StartingBalance == 1000000  \* 'buying_power': 10000
DailyReward == 10000        \* reward_amount = 100
DefaultMaxAge == 30         \* max_cache_age_seconds=30
Day == 86400                \* seconds per calendar date (datetime.date())
Hour == 3600                \* seconds per hour
MinQuantity == 1            \* 0.01 shares
UserId == 1                 \* the demo account, user_id=1

(* Bounds of the model *)

MaxDays == 2        \* the clock runs for this many days past StartTime
MaxElapsed == 30    \* ticks of seconds are taken up to this many seconds
MaxCalls == 3       \* logins and trades per behaviour

StartTime == Day - 15       \* 23:59:45 on day 0: the date changes with the next tick

Symbols == {"AAPL", "MSFT"}
FeedPrices == {250000, 260000}      \* 250.000 and 260.000 dollars
MaxAges == {DefaultMaxAge, 45}
SecondSteps == {DefaultMaxAge}
HourSteps == {12}

----------------------------------------------------------------------------
(* Arithmetic *)

Min(S) == CHOOSE x \in S : \A y \in S : x <= y

\* round(n / d) to the nearest integer, ties to even (n >= 0, d > 0)
Round(n, d) ==
    LET q == n \div d
        r == n % d
    IN  IF 2 * r < d THEN q
        ELSE IF 2 * r > d THEN q + 1
        ELSE IF q % 2 = 0 THEN q ELSE q + 1

date_keeps_time(t) == t

\* datetime.date(): the UTC calendar date of a timestamp, as a day number
date(t) == t \div Day

----------------------------------------------------------------------------
(* Errors: the text of an {'error': ...} result or of a raised ValueError *)

Err(msg, symbol, cause) == [msg |-> msg, symbol |-> symbol, cause |-> cause]
NoError == Err("", "", "")

----------------------------------------------------------------------------
(* The external feed: yf.Ticker(symbol).history(period='1d') *)

FeedOutcomes ==
    [kind : {"price"}, price : FeedPrices]
        \cup {[kind |-> "empty", price |-> 0], [kind |-> "raise", price |-> 0]}

\* no answer is drawn for a call that does not reach the feed
Unasked == [kind |-> "unasked", price |-> 0]

----------------------------------------------------------------------------
(* Price cache *)

\* stocks_collection.find_one({'symbol': symbol}): index of the first match, 0 if none
find_stock(coll, symbol) ==
    LET I == {i \in 1..Len(coll) : coll[i].symbol = symbol}
    IN  IF I = {} THEN 0 ELSE Min(I)

cache_is_fresh_at_max_age(doc, current_time, max_cache_age_seconds) ==
    current_time - doc.timestamp <= max_cache_age_seconds

\* cache_age < max_cache_age_seconds
cache_is_fresh(doc, current_time, max_cache_age_seconds) ==
    current_time - doc.timestamp < max_cache_age_seconds

upsert_always_inserts(coll, symbol, price, current_time) ==
    Append(coll, [symbol |-> symbol, price |-> price, timestamp |-> current_time])

\* stocks_collection.update_one({'symbol': symbol}, {'$set': {...}}, upsert=True)
update_one_upsert(coll, symbol, price, current_time) ==
    LET i == find_stock(coll, symbol)
    IN  IF i = 0
        THEN Append(coll, [symbol |-> symbol, price |-> price,
                           timestamp |-> current_time])
        ELSE [coll EXCEPT ![i] = [@ EXCEPT !.price = price,
                                           !.timestamp = current_time]]

\* the ValueError raised by get_stock_price when the feed gives no price
price_error(symbol, feed) ==
    Err("Error fetching price for", symbol,
        IF feed.kind = "empty" THEN "No price data available for " \o symbol
        ELSE "feed exception")

reraise_unwrapped(feed) ==
    IF feed.kind = "empty" THEN "ValueError" ELSE "Exception"

\* except Exception as e: raise ValueError(...): whatever went wrong inside
\* get_stock_price leaves it as a ValueError
reraise(feed) == "ValueError"

\* get_stock_price goes to the feed: no document, or one that is too old
asks_feed(coll, symbol, max_cache_age_seconds, current_time) ==
    LET i == find_stock(coll, symbol)
    IN  ~(i # 0 /\ cache_is_fresh(coll[i], current_time, max_cache_age_seconds))

\* a lookup that stamps the entry it has with the time of a failed fetch
get_stock_price_stamps_failure(coll, symbol, max_cache_age_seconds, current_time, feed) ==
    LET i == find_stock(coll, symbol)
    IN  IF ~asks_feed(coll, symbol, max_cache_age_seconds, current_time)
        THEN [ok |-> TRUE, price |-> coll[i].price, raised |-> "",
              error |-> NoError, stocks |-> coll, feed_calls |-> 0]
        ELSE IF feed.kind = "price"
        THEN [ok |-> TRUE, price |-> feed.price, raised |-> "", error |-> NoError,
              stocks |-> update_one_upsert(coll, symbol, feed.price, current_time),
              feed_calls |-> 1]
        ELSE [ok |-> FALSE, price |-> 0, raised |-> reraise(feed),
              error |-> price_error(symbol, feed),
              stocks |-> IF i = 0 THEN coll
                         ELSE [coll EXCEPT ![i].timestamp = current_time],
              feed_calls |-> 1]

\* get_stock_price(symbol, max_cache_age_seconds) at time current_time, when the
\* feed, if it is asked, answers `feed`
get_stock_price(coll, symbol, max_cache_age_seconds, current_time, feed) ==
    LET i == find_stock(coll, symbol)
    IN  IF ~asks_feed(coll, symbol, max_cache_age_seconds, current_time)
        THEN [ok |-> TRUE, price |-> coll[i].price, raised |-> "",
              error |-> NoError, stocks |-> coll, feed_calls |-> 0]
        ELSE IF feed.kind = "price"
        THEN [ok |-> TRUE, price |-> feed.price, raised |-> "", error |-> NoError,
              stocks |-> update_one_upsert(coll, symbol, feed.price, current_time),
              feed_calls |-> 1]
        ELSE [ok |-> FALSE, price |-> 0, raised |-> reraise(feed),
              error |-> price_error(symbol, feed),
              stocks |-> coll, feed_calls |-> 1]

\* cached_prices = {doc['symbol']: doc['price'] for doc in cached_data}, where
\* cached_data are the documents of the requested symbols younger than max age
cached_prices(coll, symbols, max_cache_age_seconds, current_time) ==
    LET hit(i) == /\ \E k \in 1..Len(symbols) : symbols[k] = coll[i].symbol
                  /\ coll[i].timestamp > current_time - max_cache_age_seconds
        keys == {coll[i].symbol : i \in {j \in 1..Len(coll) : hit(j)}}
        last(s) == CHOOSE i \in 1..Len(coll) :
                      /\ hit(i) /\ coll[i].symbol = s
                      /\ \A j \in 1..Len(coll) :
                            (hit(j) /\ coll[j].symbol = s) => j <= i
    IN  [s \in keys |-> coll[last(s)].price]

\* the loop of get_multiple_stock_prices from the k-th symbol on; acc carries
\* prices, errors, the cache and the number of feed invocations so far
RECURSIVE price_loop(_, _, _, _, _, _, _)
price_loop(acc, symbols, k, cached, max_cache_age_seconds, current_time, feeds) ==
    IF k > Len(symbols) THEN acc
    ELSE LET symbol == symbols[k]
             r == get_stock_price(acc.stocks, symbol, max_cache_age_seconds,
                                  current_time, feeds[k])
             next ==
                 IF symbol \in DOMAIN cached
                 THEN [acc EXCEPT !.prices = (symbol :> cached[symbol]) @@ @]
                 ELSE IF r.ok
                 THEN [acc EXCEPT !.prices = (symbol :> r.price) @@ @,
                                  !.stocks = r.stocks,
                                  !.feed_calls = @ + r.feed_calls]
                 ELSE [acc EXCEPT !.errors = (symbol :> r.error) @@ @,
                                  !.feed_calls = @ + r.feed_calls]
         IN  price_loop(next, symbols, k + 1, cached, max_cache_age_seconds,
                        current_time, feeds)

\* get_multiple_stock_prices(symbols, max_cache_age_seconds); feeds[k] is the
\* feed's answer if the k-th symbol has to be fetched
get_multiple_stock_prices(coll, symbols, max_cache_age_seconds, current_time, feeds) ==
    price_loop([prices |-> <<>>, errors |-> <<>>, stocks |-> coll, feed_calls |-> 0],
               symbols, 1,
               cached_prices(coll, symbols, max_cache_age_seconds, current_time),
               max_cache_age_seconds, current_time, feeds)

----------------------------------------------------------------------------
(* Ledger store *)

\* users_collection.find_one({'user_id': user_id}): index of the first match, 0 if none
find_user(coll, user_id) ==
    LET I == {i \in 1..Len(coll) : coll[i].user_id = user_id}
    IN  IF I = {} THEN 0 ELSE Min(I)

\* the document initialize_user inserts
new_user(user_id, current_time) ==
    [user_id |-> user_id, portfolio |-> <<>>, buying_power |-> StartingBalance,
     streak |-> 0, last_login |-> current_time, streak_reward_claimed |-> None]

initialize_user_always_inserts(coll, user_id, current_time) ==
    Append(coll, new_user(user_id, current_time))

\* initialize_user(user_id)
initialize_user(coll, user_id, current_time) ==
    IF find_user(coll, user_id) = 0
    THEN Append(coll, new_user(user_id, current_time))
    ELSE coll

\* a write that replaces the document instead of setting two of its fields
set_trade_fields_replaces_document(coll, user_id, portfolio, buying_power) ==
    LET i == find_user(coll, user_id)
    IN  IF i = 0 THEN coll
        ELSE [coll EXCEPT ![i] = [new_user(user_id, None) EXCEPT
                                     !.portfolio = portfolio,
                                     !.buying_power = buying_power]]

\* users_collection.update_one({'user_id': user_id}, {'$set': {'portfolio': ...,
\* 'buying_power': ...}}): the first matching document, nothing if none matches
set_trade_fields(coll, user_id, portfolio, buying_power) ==
    LET i == find_user(coll, user_id)
    IN  IF i = 0 THEN coll
        ELSE [coll EXCEPT ![i] = [@ EXCEPT !.portfolio = portfolio,
                                           !.buying_power = buying_power]]

\* a reward write that leaves 'last_login' out of the '$set'
set_reward_fields_keeps_last_login(coll, user_id, current_time, streak, buying_power) ==
    LET i == find_user(coll, user_id)
    IN  IF i = 0 THEN coll
        ELSE [coll EXCEPT ![i] = [@ EXCEPT !.streak = streak,
                                           !.streak_reward_claimed = current_time,
                                           !.buying_power = buying_power]]

\* a reward write that leaves 'buying_power' out of the '$set'
set_reward_fields_keeps_balance(coll, user_id, current_time, streak, buying_power) ==
    LET i == find_user(coll, user_id)
    IN  IF i = 0 THEN coll
        ELSE [coll EXCEPT ![i] = [@ EXCEPT !.last_login = current_time,
                                           !.streak = streak,
                                           !.streak_reward_claimed = current_time]]

\* update_one with '$set' of last_login, streak, streak_reward_claimed, buying_power
set_reward_fields(coll, user_id, current_time, streak, buying_power) ==
    LET i == find_user(coll, user_id)
    IN  IF i = 0 THEN coll
        ELSE [coll EXCEPT ![i] = [@ EXCEPT !.last_login = current_time,
                                           !.streak = streak,
                                           !.streak_reward_claimed = current_time,
                                           !.buying_power = buying_power]]

\* update_one with '$set' of last_login and streak only
set_login_fields(coll, user_id, current_time, streak) ==
    LET i == find_user(coll, user_id)
    IN  IF i = 0 THEN coll
        ELSE [coll EXCEPT ![i] = [@ EXCEPT !.last_login = current_time,
                                           !.streak = streak]]

----------------------------------------------------------------------------
(* Engagement tracker *)

next_streak_never_resets(current_streak, last_login_date, current_date) ==
    current_streak + 1

\* the streak recomputed when the date is later than the last login's date
next_streak(current_streak, last_login_date, current_date) ==
    IF current_date = last_login_date + 1 THEN current_streak + 1 ELSE 1

\* a decision that rewards a new day only when it continues the streak
login_decision_rewards_streak_only(user, current_time) ==
    LET current_date == date(current_time)
        last_login_date == date(user.last_login)
        moved == IF current_date > last_login_date
                 THEN next_streak(user.streak, last_login_date, current_date)
                 ELSE user.streak
    IN  IF user.streak_reward_claimed = None
        THEN [write |-> "reward", streak |-> 1, reward |-> DailyReward,
              buying_power |-> user.buying_power + DailyReward,
              message |-> "First login! Streak started!"]
        ELSE IF current_date = last_login_date + 1
        THEN [write |-> "reward", streak |-> moved, reward |-> DailyReward,
              buying_power |-> user.buying_power + DailyReward,
              message |-> "Daily login streak"]
        ELSE [write |-> "login", streak |-> moved, reward |-> 0,
              buying_power |-> user.buying_power,
              message |-> "Welcome back!"]

\* what update_login_streak decides from the document it read:
\* the fields it writes and the result it returns
login_decision(user, current_time) ==
    LET current_date == date(current_time)
        last_login_date == date(user.last_login)
        last_reward_date == date(user.streak_reward_claimed)
        moved == IF current_date > last_login_date
                 THEN next_streak(user.streak, last_login_date, current_date)
                 ELSE user.streak
    IN  IF user.streak_reward_claimed = None
        THEN [write |-> "reward", streak |-> 1, reward |-> DailyReward,
              buying_power |-> user.buying_power + DailyReward,
              message |-> "First login! Streak started!"]
        ELSE IF current_date > last_login_date /\ current_date > last_reward_date
        THEN [write |-> "reward", streak |-> moved, reward |-> DailyReward,
              buying_power |-> user.buying_power + DailyReward,
              message |-> "Daily login streak"]
        ELSE [write |-> "login", streak |-> moved, reward |-> 0,
              buying_power |-> user.buying_power,
              message |-> "Welcome back!"]

\* the update_one call that carries out a decision
login_write(coll, user_id, current_time, d) ==
    IF d.write = "reward"
    THEN set_reward_fields(coll, user_id, current_time, d.streak, d.buying_power)
    ELSE set_login_fields(coll, user_id, current_time, d.streak)

\* update_login_streak(user_id) run without interruption
update_login_streak(coll, user_id, current_time) ==
    LET i == find_user(coll, user_id)
        d == login_decision(coll[i], current_time)
    IN  IF i = 0
        THEN [users |-> coll, ok |-> FALSE, error |-> Err("User not found", "", ""),
              message |-> "", streak |-> 0, reward |-> 0]
        ELSE [users |-> login_write(coll, user_id, current_time, d), ok |-> TRUE,
              error |-> NoError, message |-> d.message, streak |-> d.streak,
              reward |-> d.reward]

----------------------------------------------------------------------------
(* Trade engine *)

\* index of the first position of the symbol in a portfolio, 0 if none
find_position(portfolio, symbol) ==
    LET I == {i \in 1..Len(portfolio) : portfolio[i].symbol = symbol}
    IN  IF I = {} THEN 0 ELSE Min(I)

\* a sequence without its i-th element (portfolio.remove(stock))
remove_at(seq, i) == SubSeq(seq, 1, i - 1) \o SubSeq(seq, i + 1, Len(seq))

\* quantity = round(dollar_amount / current_price, 2)
buy_quantity(dollar_amount, current_price) == Round(dollar_amount * 1000, current_price)

\* round(current_price * quantity, 2): the cost of a buy, the value of a sale
trade_total(current_price, quantity) == Round(current_price * quantity, 1000)

\* round(current_price, 2)
price_per_share(current_price) == Round(current_price, 10)

average_price_unweighted(old_quantity, old_avg_price, quantity, current_price, new_quantity) ==
    Round(10 * old_avg_price + current_price, 20)

\* the weighted average price of an enlarged position
average_price(old_quantity, old_avg_price, quantity, current_price, new_quantity) ==
    Round(10 * old_quantity * old_avg_price + quantity * current_price,
          10 * new_quantity)

\* the portfolio after buying `quantity` of the symbol at current_price
buy_position(portfolio, symbol, quantity, current_price) ==
    LET i == find_position(portfolio, symbol)
        new_quantity == portfolio[i].quantity + quantity
    IN  IF i # 0
        THEN [portfolio EXCEPT ![i] =
                 [@ EXCEPT !.quantity = new_quantity,
                           !.average_price =
                               average_price(portfolio[i].quantity,
                                             portfolio[i].average_price,
                                             quantity, current_price, new_quantity)]]
        ELSE Append(portfolio, [symbol |-> symbol, quantity |-> quantity,
                                average_price |-> price_per_share(current_price)])

\* the portfolio after selling `quantity` of the position at index i
sell_position_keeps_empty(portfolio, i, quantity) ==
    [portfolio EXCEPT ![i] = [@ EXCEPT !.quantity = @ - quantity]]

sell_position_removes(portfolio, i, quantity) == remove_at(portfolio, i)

sell_position(portfolio, i, quantity) ==
    LET left == portfolio[i].quantity - quantity
    IN  IF left < MinQuantity
        THEN remove_at(portfolio, i)
        ELSE [portfolio EXCEPT ![i] = [@ EXCEPT !.quantity = left]]

TradeError(msg) ==
    [ok |-> FALSE, error |-> Err(msg, "", ""), write |-> FALSE,
     portfolio |-> <<>>, buying_power |-> 0, quantity |-> 0, total |-> 0]

buy_decision_rejects_exact(coll, user_id, symbol, quantity, total_cost, current_price) ==
    LET i == find_user(coll, user_id)
        user == coll[i]
    IN  IF i = 0 THEN TradeError("User not found")
        ELSE IF user.buying_power <= total_cost THEN TradeError("Insufficient funds")
        ELSE [ok |-> TRUE, error |-> NoError, write |-> TRUE,
              portfolio |-> buy_position(user.portfolio, symbol, quantity,
                                         current_price),
              buying_power |-> user.buying_power - total_cost,
              quantity |-> quantity, total |-> total_cost]

\* buy_stock from the ledger read on: the checks against the document read,
\* and the fields to write
buy_decision(coll, user_id, symbol, quantity, total_cost, current_price) ==
    LET i == find_user(coll, user_id)
        user == coll[i]
    IN  IF i = 0 THEN TradeError("User not found")
        ELSE IF user.buying_power < total_cost THEN TradeError("Insufficient funds")
        ELSE [ok |-> TRUE, error |-> NoError, write |-> TRUE,
              portfolio |-> buy_position(user.portfolio, symbol, quantity,
                                         current_price),
              buying_power |-> user.buying_power - total_cost,
              quantity |-> quantity, total |-> total_cost]

sell_decision_rejects_exact(coll, user_id, symbol, quantity, total_value) ==
    LET i == find_user(coll, user_id)
        user == coll[i]
        k == find_position(user.portfolio, symbol)
    IN  IF i = 0 THEN TradeError("User not found")
        ELSE IF k = 0 THEN TradeError("Stock not found in portfolio")
        ELSE IF user.portfolio[k].quantity <= quantity
        THEN [TradeError("Insufficient shares") EXCEPT
                 !.quantity = user.portfolio[k].quantity]
        ELSE [ok |-> TRUE, error |-> NoError, write |-> TRUE,
              portfolio |-> sell_position(user.portfolio, k, quantity),
              buying_power |-> user.buying_power + total_value,
              quantity |-> quantity, total |-> total_value]

sell_decision_charges_fee(coll, user_id, symbol, quantity, total_value) ==
    LET i == find_user(coll, user_id)
        user == coll[i]
        k == find_position(user.portfolio, symbol)
    IN  IF i = 0 THEN TradeError("User not found")
        ELSE IF k = 0 THEN TradeError("Stock not found in portfolio")
        ELSE IF user.portfolio[k].quantity < quantity
        THEN [TradeError("Insufficient shares") EXCEPT
                 !.quantity = user.portfolio[k].quantity]
        ELSE [ok |-> TRUE, error |-> NoError, write |-> TRUE,
              portfolio |-> sell_position(user.portfolio, k, quantity),
              buying_power |-> user.buying_power + total_value - 2,
              quantity |-> quantity, total |-> total_value]

\* sell_stock from the ledger read on
sell_decision(coll, user_id, symbol, quantity, total_value) ==
    LET i == find_user(coll, user_id)
        user == coll[i]
        k == find_position(user.portfolio, symbol)
    IN  IF i = 0 THEN TradeError("User not found")
        ELSE IF k = 0 THEN TradeError("Stock not found in portfolio")
        ELSE IF user.portfolio[k].quantity < quantity
        THEN [TradeError("Insufficient shares") EXCEPT
                 !.quantity = user.portfolio[k].quantity]
        ELSE [ok |-> TRUE, error |-> NoError, write |-> TRUE,
              portfolio |-> sell_position(user.portfolio, k, quantity),
              buying_power |-> user.buying_power + total_value,
              quantity |-> quantity, total |-> total_value]

trade_write_before_checks(coll, user_id, d) ==
    set_trade_fields(coll, user_id, d.portfolio, d.buying_power)

\* the update_one call that ends a successful trade
trade_write(coll, user_id, d) ==
    IF d.write THEN set_trade_fields(coll, user_id, d.portfolio, d.buying_power)
    ELSE coll

\* except ValueError as e: return {'error': str(e)}: a ValueError becomes an
\* error result, any other exception leaves the trade function
uncaught(exception) == IF exception = "ValueError" THEN "" ELSE exception

\* buy_stock(user_id, stock_symbol, dollar_amount) run without interruption
buy_stock(ucoll, scoll, user_id, stock_symbol, dollar_amount, current_time, feed) ==
    LET p == get_stock_price(scoll, stock_symbol, DefaultMaxAge, current_time, feed)
        quantity == buy_quantity(dollar_amount, p.price)
        total_cost == trade_total(p.price, quantity)
        d == buy_decision(ucoll, user_id, stock_symbol, quantity, total_cost, p.price)
        failed(error, sc, n) ==
            [users |-> ucoll, stocks |-> sc, ok |-> FALSE, raised |-> "",
             error |-> error, shares_bought |-> 0, cost |-> 0,
             price_per_share |-> 0, feed_calls |-> n]
    IN  IF dollar_amount <= 0
        THEN failed(Err("Dollar amount must be greater than 0", "", ""), scoll, 0)
        ELSE IF ~p.ok
        THEN [failed(p.error, p.stocks, p.feed_calls) EXCEPT
                 !.raised = uncaught(p.raised)]
        ELSE IF quantity < MinQuantity
        THEN failed(Err("Dollar amount too small to buy minimum share quantity (0.01)",
                        "", ""), p.stocks, p.feed_calls)
        ELSE IF ~d.ok
        THEN [failed(d.error, p.stocks, p.feed_calls) EXCEPT
                 !.users = trade_write(ucoll, user_id, d)]
        ELSE [users |-> trade_write(ucoll, user_id, d), stocks |-> p.stocks,
              ok |-> TRUE, raised |-> "", error |-> NoError,
              shares_bought |-> quantity,
              cost |-> total_cost, price_per_share |-> price_per_share(p.price),
              feed_calls |-> p.feed_calls]

\* quantity = round(quantity, 2), from thousandths to hundredths of a share
sell_quantity(quantity) == Round(quantity, 10)

\* sell_stock(user_id, stock_symbol, quantity) run without interruption
sell_stock(ucoll, scoll, user_id, stock_symbol, requested, current_time, feed) ==
    LET quantity == sell_quantity(requested)
        p == get_stock_price(scoll, stock_symbol, DefaultMaxAge, current_time, feed)
        total_value == trade_total(p.price, quantity)
        d == sell_decision(ucoll, user_id, stock_symbol, quantity, total_value)
        failed(error, sc, n, owned) ==
            [users |-> ucoll, stocks |-> sc, ok |-> FALSE, raised |-> "",
             error |-> error, owned |-> owned, value |-> 0, price_per_share |-> 0,
             feed_calls |-> n]
    IN  IF requested <= 0
        THEN failed(Err("Quantity must be greater than 0", "", ""), scoll, 0, 0)
        ELSE IF ~p.ok
        THEN [failed(p.error, p.stocks, p.feed_calls, 0) EXCEPT
                 !.raised = uncaught(p.raised)]
        ELSE IF ~d.ok
        THEN [failed(d.error, p.stocks, p.feed_calls, d.quantity) EXCEPT
                 !.users = trade_write(ucoll, user_id, d)]
        ELSE [users |-> trade_write(ucoll, user_id, d), stocks |-> p.stocks,
              ok |-> TRUE, raised |-> "", error |-> NoError, owned |-> 0,
              value |-> total_value,
              price_per_share |-> p.price, feed_calls |-> p.feed_calls]

----------------------------------------------------------------------------
(* Portfolio view.  Values that the code does not round are kept exact, in *)
(* hundred-thousandths of a dollar: a price (thousandths of a dollar) times *)
(* a quantity (hundredths of a share), or cents times 1000.                 *)

valued_at_zero(stock, r) ==
    [symbol |-> stock.symbol, quantity |-> stock.quantity,
     average_price |-> stock.average_price,
     current_price |-> IF r.ok THEN r.price ELSE 0,
     current_value |-> IF r.ok THEN r.price * stock.quantity ELSE 0]

\* a position as get_portfolio reports it, r being what get_stock_price gave
valued(stock, r) ==
    [symbol |-> stock.symbol, quantity |-> stock.quantity,
     average_price |-> stock.average_price,
     current_price |-> IF r.ok THEN r.price ELSE None,
     current_value |-> IF r.ok THEN r.price * stock.quantity ELSE None]

\* one turn of get_portfolio's loop for a position, r being what
\* get_stock_price gave; acc carries the view, total_value, the cache, the
\* feed invocations and an exception that is not a ValueError
value_step(acc, stock, r) ==
    [portfolio |-> Append(acc.portfolio, valued(stock, r)),
     total_value |-> acc.total_value
                       + (IF r.ok THEN r.price * stock.quantity ELSE 0),
     stocks |-> r.stocks,
     feed_calls |-> acc.feed_calls + r.feed_calls,
     raised |-> uncaught(r.raised)]

\* the loop of get_portfolio from the k-th position on; an exception that is
\* not a ValueError leaves the loop
RECURSIVE value_loop(_, _, _, _, _)
value_loop(acc, portfolio, k, current_time, feeds) ==
    IF k > Len(portfolio) \/ acc.raised # "" THEN acc
    ELSE value_loop(
             value_step(acc, portfolio[k],
                        get_stock_price(acc.stocks, portfolio[k].symbol,
                                        DefaultMaxAge, current_time, feeds[k])),
             portfolio, k + 1, current_time, feeds)

\* one turn of calculate_all_time_return's loop: a position counts in
\* current_value and in initial_investment when its price is got
performance_step(acc, stock, r) ==
    IF r.ok
    THEN [current_value |-> acc.current_value + r.price * stock.quantity,
          initial_investment |-> acc.initial_investment
                                   + 10 * stock.average_price * stock.quantity,
          priced |-> Append(acc.priced, TRUE),
          stocks |-> r.stocks,
          feed_calls |-> acc.feed_calls + r.feed_calls]
    ELSE [acc EXCEPT !.priced = Append(@, FALSE),
                     !.feed_calls = @ + r.feed_calls]

\* the loop of calculate_all_time_return from the k-th position on
RECURSIVE performance_loop(_, _, _, _, _)
performance_loop(acc, portfolio, k, current_time, feeds) ==
    IF k > Len(portfolio) THEN acc
    ELSE performance_loop(
             performance_step(acc, portfolio[k],
                              get_stock_price(acc.stocks, portfolio[k].symbol,
                                              DefaultMaxAge, current_time,
                                              feeds[k])),
             portfolio, k + 1, current_time, feeds)

\* what calculate_all_time_return returns after its loop ended in r
all_time_return(r) ==
    [ok |-> TRUE, error |-> NoError,
     current_value |-> r.current_value,
     initial_investment |-> r.initial_investment,
     total_return |-> r.current_value - r.initial_investment,
     priced |-> r.priced, stocks |-> r.stocks,
     feed_calls |-> r.feed_calls]

\* calculate_all_time_return(user_id)
calculate_all_time_return(ucoll, scoll, user_id, current_time, feeds) ==
    IF find_user(ucoll, user_id) = 0
    THEN [ok |-> FALSE, error |-> Err("User not found", "", ""),
          current_value |-> 0, initial_investment |-> 0, total_return |-> 0,
          priced |-> <<>>, stocks |-> scoll, feed_calls |-> 0]
    ELSE all_time_return(
             performance_loop(
                 [current_value |->
                      1000 * ucoll[find_user(ucoll, user_id)].buying_power,
                  initial_investment |-> 1000 * StartingBalance,
                  priced |-> <<>>, stocks |-> scoll, feed_calls |-> 0],
                 ucoll[find_user(ucoll, user_id)].portfolio, 1, current_time,
                 feeds))

\* what get_portfolio returns for the user once its loop ended in v and
\* calculate_all_time_return gave a
portfolio_view(user, v, a) ==
    [ok |-> TRUE, raised |-> "", error |-> NoError,
     portfolio |-> v.portfolio, buying_power |-> user.buying_power,
     total_value |-> v.total_value,
     all_time_returns |->
         [ok |-> a.ok, current_value |-> a.current_value,
          initial_investment |-> a.initial_investment,
          total_return |-> a.total_return, priced |-> a.priced],
     stocks |-> a.stocks, feed_calls |-> v.feed_calls + a.feed_calls]

\* get_portfolio from the end of its loop on
after_value_loop(ucoll, user_id, current_time, feeds_again, v) ==
    IF v.raised # ""
    THEN [ok |-> FALSE, raised |-> v.raised, error |-> NoError,
          portfolio |-> <<>>, buying_power |-> 0, total_value |-> 0,
          all_time_returns |-> [ok |-> FALSE],
          stocks |-> v.stocks, feed_calls |-> v.feed_calls]
    ELSE portfolio_view(ucoll[find_user(ucoll, user_id)], v,
                        calculate_all_time_return(ucoll, v.stocks, user_id,
                                                  current_time, feeds_again))

\* get_portfolio(user_id); feeds[k] answers the k-th position's price lookup
\* if it reaches the feed, feeds_again[k] the lookup that
\* calculate_all_time_return makes for it afterwards
get_portfolio(ucoll, scoll, user_id, current_time, feeds, feeds_again) ==
    IF find_user(ucoll, user_id) = 0
    THEN [ok |-> FALSE, raised |-> "", error |-> Err("User not found", "", ""),
          portfolio |-> <<>>, buying_power |-> 0, total_value |-> 0,
          all_time_returns |-> [ok |-> FALSE],
          stocks |-> scoll, feed_calls |-> 0]
    ELSE after_value_loop(
             ucoll, user_id, current_time, feeds_again,
             value_loop([portfolio |-> <<>>,
                         total_value |->
                             1000 * ucoll[find_user(ucoll, user_id)].buying_power,
                         stocks |-> scoll, feed_calls |-> 0, raised |-> ""],
                        ucoll[find_user(ucoll, user_id)].portfolio, 1,
                        current_time, feeds))

\* one turn of calculate_daily_return's loop for a position, h being what
\* ticker.history(period='2d') gave: with at least two closes the last two
\* are yesterday's and today's, an exception leaves an error entry, and a
\* shorter history leaves nothing
daily_step(acc, stock, h) ==
    IF h.kind = "raise"
    THEN [acc EXCEPT !.stock_returns =
              Append(@, [symbol |-> stock.symbol, error |-> TRUE,
                         daily_return |-> 0, yesterday_price |-> None,
                         today_price |-> None])]
    ELSE IF Len(h.closes) >= 2
    THEN [daily_return |-> acc.daily_return
              + (h.closes[Len(h.closes)] - h.closes[Len(h.closes) - 1])
                    * stock.quantity,
          portfolio_value_yesterday |-> acc.portfolio_value_yesterday
              + h.closes[Len(h.closes) - 1] * stock.quantity,
          portfolio_value_today |-> acc.portfolio_value_today
              + h.closes[Len(h.closes)] * stock.quantity,
          stock_returns |->
              Append(acc.stock_returns,
                     [symbol |-> stock.symbol, error |-> FALSE,
                      daily_return |->
                          (h.closes[Len(h.closes)] - h.closes[Len(h.closes) - 1])
                              * stock.quantity,
                      yesterday_price |-> h.closes[Len(h.closes) - 1],
                      today_price |-> h.closes[Len(h.closes)]])]
    ELSE acc

\* the loop of calculate_daily_return from the k-th position on
RECURSIVE daily_loop(_, _, _, _)
daily_loop(acc, portfolio, k, histories) ==
    IF k > Len(portfolio) THEN acc
    ELSE daily_loop(daily_step(acc, portfolio[k], histories[k]),
                    portfolio, k + 1, histories)

\* calculate_daily_return(user_id); histories[k] is the feed's two-day history
\* of the k-th position.  The percentages are left out.
calculate_daily_return(ucoll, user_id, histories) ==
    IF find_user(ucoll, user_id) = 0
    THEN [ok |-> FALSE, error |-> Err("User not found", "", ""),
          daily_return |-> 0, portfolio_value_yesterday |-> 0,
          portfolio_value_today |-> 0, stock_returns |-> <<>>]
    ELSE [ok |-> TRUE, error |-> NoError]
           @@ daily_loop(
                  [daily_return |-> 0,
                   portfolio_value_yesterday |->
                       1000 * ucoll[find_user(ucoll, user_id)].buying_power,
                   portfolio_value_today |->
                       1000 * ucoll[find_user(ucoll, user_id)].buying_power,
                   stock_returns |-> <<>>],
                  ucoll[find_user(ucoll, user_id)].portfolio, 1, histories)

\* format_api_response(...): trading.py neither defines nor imports the
\* name, so the call raises NameError before it builds a response
format_api_response(success, streak_info, portfolio_info) ==
    [ok |-> FALSE, raised |-> "NameError", success |-> success,
     stocks |-> portfolio_info.stocks, users |-> streak_info.users,
     reward |-> streak_info.reward, streak |-> streak_info.streak]

\* get_portfolio_with_streak from the call of get_portfolio on, s being what
\* update_login_streak returned
with_streak(s, p) == format_api_response(p.ok, s, p)

\* get_portfolio_with_streak(user_id): the streak update, written to the
\* ledger, then the portfolio view, then the response
get_portfolio_with_streak(ucoll, scoll, user_id, current_time, feeds, again) ==
    with_streak(update_login_streak(ucoll, user_id, current_time),
                get_portfolio(
                    update_login_streak(ucoll, user_id, current_time).users,
                    scoll, user_id, current_time, feeds, again))

----------------------------------------------------------------------------
(* The clock *)

\* seconds pass within the cache's time-to-live window
TickSeconds ==
    /\ \E d \in SecondSteps :
          /\ ((now - StartTime) % Day) + d <= MaxElapsed
          /\ now' = now + d
    /\ UNCHANGED <<users, stocks, result, calls, rewardLog, threads, lots>>

\* hours pass: the same calendar date later on, or a later date
TickHours ==
    /\ \E h \in HourSteps :
          /\ now + h * Hour <= StartTime + MaxDays * Day + MaxElapsed
          /\ now' = now + h * Hour
    /\ UNCHANGED <<users, stocks, result, calls, rewardLog, threads, lots>>

----------------------------------------------------------------------------
(* Calls on the price cache, one at a time *)

\* the answers the feed may give to a price lookup made now
FeedAnswers(symbol, max_age) ==
    IF asks_feed(stocks, symbol, max_age, now) THEN FeedOutcomes ELSE {Unasked}

GetPrice(symbol, max_age, feed) ==
    LET r == get_stock_price(stocks, symbol, max_age, now, feed)
    IN  /\ stocks' = r.stocks
        /\ result' = [op |-> "get_stock_price", ok |-> r.ok, price |-> r.price,
                      raised |-> r.raised, error |-> r.error,
                      feed_calls |-> r.feed_calls]
        /\ UNCHANGED <<users, now, calls, rewardLog, threads, lots>>

GetStockPrice ==
    \E symbol \in Symbols, max_age \in MaxAges :
      \E feed \in FeedAnswers(symbol, max_age) : GetPrice(symbol, max_age, feed)

SymbolLists ==
    {<<>>, <<"AAPL">>, <<"AAPL", "MSFT">>, <<"MSFT", "AAPL">>, <<"AAPL", "AAPL">>}

GetPrices(symbols, max_age, feeds) ==
    LET r == get_multiple_stock_prices(stocks, symbols, max_age, now, feeds)
    IN  /\ stocks' = r.stocks
        /\ result' = [op |-> "get_multiple_stock_prices", symbols |-> symbols,
                      prices |-> r.prices, errors |-> r.errors,
                      feed_calls |-> r.feed_calls]
        /\ UNCHANGED <<users, now, calls, rewardLog, threads, lots>>

GetMultipleStockPrices ==
    \E symbols \in SymbolLists, max_age \in MaxAges :
      \E feeds \in [1..Len(symbols) -> FeedOutcomes] :
        GetPrices(symbols, max_age, feeds)

----------------------------------------------------------------------------
(* Calls on the ledger, one at a time *)

UserIds == {UserId}
DollarAmounts == {0, 100, 100000, 1000000}      \* 0, 1, 1000 and 10000 dollars
SellQuantities == {0, 4, 2000, 4000}     \* 0, 0.004, 2 and 4 shares

\* the price a trade that has just returned worked with: the cached price
paid_price(coll, symbol) == coll[find_stock(coll, symbol)].price

\* the purchase history after a buy and after a sale of the symbol
bought(history, symbol, quantity, price) ==
    Append(history, [symbol |-> symbol, quantity |-> quantity, price |-> price])
sold(history, symbol) ==
    LET Other(lot) == lot.symbol # symbol IN SelectSeq(history, Other)

Initialize(user_id) ==
    /\ users' = initialize_user(users, user_id, now)
    /\ result' = [op |-> "initialize_user"]
    /\ UNCHANGED <<stocks, now, calls, rewardLog, threads, lots>>

InitializeUser == \E user_id \in UserIds : Initialize(user_id)

Login(user_id) ==
    LET r == update_login_streak(users, user_id, now)
    IN  /\ calls < MaxCalls
        /\ users' = r.users
        /\ result' = [op |-> "update_login_streak",
                      ok |-> r.ok, error |-> r.error, message |-> r.message,
                      streak |-> r.streak, reward |-> r.reward]
        /\ rewardLog' = IF r.reward > 0 THEN Append(rewardLog, now)
                        ELSE rewardLog
        /\ calls' = calls + 1
        /\ UNCHANGED <<stocks, now, threads, lots>>

UpdateLoginStreak == \E user_id \in UserIds : Login(user_id)

Buy(user_id, symbol, amount, feed) ==
    LET r == buy_stock(users, stocks, user_id, symbol, amount, now, feed)
    IN  /\ calls < MaxCalls
        /\ users' = r.users
        /\ stocks' = r.stocks
        /\ result' = [op |-> "buy_stock", ok |-> r.ok, raised |-> r.raised,
                      error |-> r.error,
                      shares_bought |-> r.shares_bought, cost |-> r.cost,
                      price_per_share |-> r.price_per_share,
                      feed_calls |-> r.feed_calls]
        /\ lots' = IF r.ok
                   THEN bought(lots, symbol, r.shares_bought,
                               paid_price(r.stocks, symbol))
                   ELSE lots
        /\ calls' = calls + 1
        /\ UNCHANGED <<now, rewardLog, threads>>

BuyStock ==
    \E user_id \in UserIds, symbol \in Symbols, amount \in DollarAmounts :
      \E feed \in IF amount > 0 THEN FeedAnswers(symbol, DefaultMaxAge)
                   ELSE {Unasked} :
        Buy(user_id, symbol, amount, feed)

Sell(user_id, symbol, quantity, feed) ==
    LET r == sell_stock(users, stocks, user_id, symbol, quantity, now, feed)
    IN  /\ calls < MaxCalls
        /\ users' = r.users
        /\ stocks' = r.stocks
        /\ result' = [op |-> "sell_stock", ok |-> r.ok, raised |-> r.raised,
                      error |-> r.error, owned |-> r.owned, value |-> r.value,
                      price_per_share |-> r.price_per_share,
                      feed_calls |-> r.feed_calls]
        /\ lots' = IF r.ok THEN sold(lots, symbol) ELSE lots
        /\ calls' = calls + 1
        /\ UNCHANGED <<now, rewardLog, threads>>

SellStock ==
    \E user_id \in UserIds, symbol \in Symbols, quantity \in SellQuantities :
      \E feed \in IF quantity > 0 THEN FeedAnswers(symbol, DefaultMaxAge)
                   ELSE {Unasked} :
        Sell(user_id, symbol, quantity, feed)

NoResult == [op |-> "none"]

Init ==
    /\ users = <<>>
    /\ stocks = <<>>
    /\ now = StartTime
    /\ result = NoResult
    /\ calls = 0
    /\ rewardLog = <<>>
    /\ threads = <<>>
    /\ lots = <<>>

PriceNext == TickSeconds \/ GetStockPrice \/ GetMultipleStockPrices

PriceSpec == Init /\ [][PriceNext]_vars

Next ==
    \/ TickSeconds
    \/ InitializeUser
    \/ UpdateLoginStreak
    \/ BuyStock
    \/ SellStock

Spec == Init /\ [][Next]_vars

LoginNext ==
    \/ TickSeconds
    \/ TickHours
    \/ InitializeUser
    \/ UpdateLoginStreak

LoginSpec == Init /\ [][LoginNext]_vars

----------------------------------------------------------------------------
(* Requests in flight.  Flask serves each request on a thread of its own, and *)
(* nothing in trading.py locks: a call is the sequence of its accesses to the *)
(* two collections and to the feed, and the accesses of different calls       *)
(* interleave.  Each access to a collection is one atomic step.  Two calls    *)
(* are made, on a ledger that was just initialised or has made one purchase.  *)

Threads == {1, 2}

NoDecision == [write |-> "none"]

Idle ==
    [op |-> "idle", pc |-> "idle", symbol |-> "", amount |-> 0, symbols |-> <<>>,
     k |-> 0, cached |-> <<>>, current_time |-> 0, price |-> 0, quantity |-> 0,
     total |-> 0, feed_calls |-> 0, d |-> NoDecision, prices |-> <<>>,
     errors |-> <<>>, ok |-> FALSE, raised |-> "", error |-> NoError,
     reward |-> 0, streak |-> 0]

ConcCalls ==
    [op : {"buy_stock"}, symbol : Symbols, amount : {100000}, symbols : {<<>>}]
        \cup [op : {"sell_stock"}, symbol : Symbols, amount : {2000},
              symbols : {<<>>}]
        \cup [op : {"update_login_streak"}, symbol : {""}, amount : {0},
              symbols : {<<>>}]
        \cup [op : {"get_stock_price"}, symbol : Symbols, amount : {0},
              symbols : {<<>>}]
        \cup [op : {"get_multiple_stock_prices"}, symbol : {""}, amount : {0},
              symbols : {<<"AAPL", "MSFT">>, <<"AAPL", "AAPL">>}]

\* the call returns (or raises): what is left of the thread is what it returned
returned(th, ok, raised, error) ==
    [th EXCEPT !.pc = "done", !.ok = ok, !.raised = raised, !.error = error,
               !.k = 0, !.cached = <<>>, !.current_time = 0, !.d = NoDecision]

\* the loop of get_multiple_stock_prices up to its next call of get_stock_price
RECURSIVE next_symbol(_)
next_symbol(th) ==
    IF th.k > Len(th.symbols) THEN returned(th, TRUE, "", NoError)
    ELSE LET symbol == th.symbols[th.k]
         IN  IF symbol \in DOMAIN th.cached
             THEN next_symbol([th EXCEPT
                                  !.prices = (symbol :> th.cached[symbol]) @@ @,
                                  !.k = @ + 1])
             ELSE [th EXCEPT !.symbol = symbol, !.pc = "cache_find"]

\* get_stock_price has returned `price` to the call that made it
got_price(th, price) ==
    IF th.op = "get_stock_price"
    THEN returned([th EXCEPT !.price = price], TRUE, "", NoError)
    ELSE IF th.op = "get_multiple_stock_prices"
    THEN next_symbol([th EXCEPT !.prices = (th.symbol :> price) @@ @,
                                !.k = @ + 1])
    ELSE IF th.op = "buy_stock"
    THEN LET quantity == buy_quantity(th.amount, price)
         IN  IF quantity < MinQuantity
             THEN returned(th, FALSE, "",
                     Err("Dollar amount too small to buy minimum share quantity (0.01)",
                         "", ""))
             ELSE [th EXCEPT !.pc = "ledger_find", !.price = price,
                             !.quantity = quantity,
                             !.total = trade_total(price, quantity)]
    ELSE [th EXCEPT !.pc = "ledger_find", !.price = price,
                    !.quantity = sell_quantity(th.amount),
                    !.total = trade_total(price, sell_quantity(th.amount))]

\* get_stock_price has raised in the call that made it
price_failed(th, feed) ==
    IF th.op = "get_stock_price"
    THEN returned(th, FALSE, reraise(feed), price_error(th.symbol, feed))
    ELSE IF th.op = "get_multiple_stock_prices"
    THEN IF reraise(feed) = "ValueError"
         THEN next_symbol([th EXCEPT
                              !.errors = (th.symbol :> price_error(th.symbol, feed))
                                             @@ @,
                              !.k = @ + 1])
         ELSE returned(th, FALSE, reraise(feed), price_error(th.symbol, feed))
    ELSE returned(th, FALSE, uncaught(reraise(feed)), price_error(th.symbol, feed))

\* a call begins: argument validation, up to its first access
start(call) ==
    LET th == [Idle EXCEPT !.op = call.op, !.symbol = call.symbol,
                           !.amount = call.amount, !.symbols = call.symbols]
    IN  IF call.op = "buy_stock"
        THEN IF call.amount <= 0
             THEN returned(th, FALSE, "",
                           Err("Dollar amount must be greater than 0", "", ""))
             ELSE [th EXCEPT !.pc = "cache_find"]
        ELSE IF call.op = "sell_stock"
        THEN IF call.amount <= 0
             THEN returned(th, FALSE, "",
                           Err("Quantity must be greater than 0", "", ""))
             ELSE [th EXCEPT !.pc = "cache_find"]
        ELSE IF call.op = "update_login_streak"
        THEN [th EXCEPT !.pc = "ledger_find"]
        ELSE IF call.op = "get_stock_price"
        THEN [th EXCEPT !.pc = "cache_find"]
        ELSE [th EXCEPT !.pc = "batch_find", !.k = 1]

Begin(t) ==
    /\ threads[t].pc = "idle"
    /\ \E call \in ConcCalls : threads' = [threads EXCEPT ![t] = start(call)]
    /\ UNCHANGED <<users, stocks, now, result, calls, rewardLog, lots>>

\* get_multiple_stock_prices: the find() of the fresh documents
BatchFind(t) ==
    /\ threads[t].pc = "batch_find"
    /\ threads' = [threads EXCEPT ![t] =
          next_symbol([threads[t] EXCEPT
                          !.cached = cached_prices(stocks, threads[t].symbols,
                                                   DefaultMaxAge, now)])]
    /\ UNCHANGED <<users, stocks, now, result, calls, rewardLog, lots>>

\* get_stock_price: find_one on the cache and utcnow()
CacheFind(t) ==
    /\ threads[t].pc = "cache_find"
    /\ threads' = [threads EXCEPT ![t] =
          IF asks_feed(stocks, @.symbol, DefaultMaxAge, now)
          THEN [@ EXCEPT !.pc = "feed", !.current_time = now]
          ELSE got_price(@, stocks[find_stock(stocks, @.symbol)].price)]
    /\ UNCHANGED <<users, stocks, now, result, calls, rewardLog, lots>>

\* get_stock_price: the feed is asked
FeedCall(t) ==
    /\ threads[t].pc = "feed"
    /\ \E feed \in FeedOutcomes :
          threads' = [threads EXCEPT ![t] =
              LET asked == [@ EXCEPT !.feed_calls = @ + 1]
              IN  IF feed.kind = "price"
                  THEN [asked EXCEPT !.pc = "cache_update", !.price = feed.price]
                  ELSE price_failed(asked, feed)]
    /\ UNCHANGED <<users, stocks, now, result, calls, rewardLog, lots>>

\* get_stock_price: update_one(..., upsert=True) on the cache
CacheUpdate(t) ==
    /\ threads[t].pc = "cache_update"
    /\ stocks' = update_one_upsert(stocks, threads[t].symbol, threads[t].price,
                                   threads[t].current_time)
    /\ threads' = [threads EXCEPT ![t] = got_price(@, @.price)]
    /\ UNCHANGED <<users, now, result, calls, rewardLog, lots>>

\* a trade that reads the ledger first and asks for the price afterwards
LedgerFind_then_price(t) ==
    /\ threads[t].pc = "ledger_find"
    /\ threads' = [threads EXCEPT ![t] =
          IF @.op = "update_login_streak"
          THEN returned(@, FALSE, "", Err("User not found", "", ""))
          ELSE IF @.d = NoDecision
          THEN [@ EXCEPT !.pc = "cache_find",
                         !.d = buy_decision(users, UserId, threads[t].symbol,
                                            threads[t].quantity,
                                            threads[t].total, threads[t].price)]
          ELSE returned(@, FALSE, "", @.d.error)]
    /\ UNCHANGED <<users, stocks, now, result, calls, rewardLog, lots>>

\* find_one on the ledger, and what the call decides from the document it got
LedgerFind(t) ==
    /\ threads[t].pc = "ledger_find"
    /\ threads' = [threads EXCEPT ![t] =
          IF @.op = "update_login_streak"
          THEN IF find_user(users, UserId) = 0
               THEN returned(@, FALSE, "", Err("User not found", "", ""))
               ELSE [@ EXCEPT !.pc = "ledger_update", !.current_time = now,
                              !.d = login_decision(
                                        users[find_user(users, UserId)], now)]
          ELSE LET d == IF @.op = "buy_stock"
                        THEN buy_decision(users, UserId, @.symbol, @.quantity,
                                          @.total, @.price)
                        ELSE sell_decision(users, UserId, @.symbol, @.quantity,
                                           @.total)
               IN  IF d.ok THEN [@ EXCEPT !.pc = "ledger_update", !.d = d]
                   ELSE returned(@, FALSE, "", d.error)]
    /\ UNCHANGED <<users, stocks, now, result, calls, rewardLog, lots>>

\* update_one on the ledger with the fields decided from the document read
LedgerUpdate(t) ==
    /\ threads[t].pc = "ledger_update"
    /\ IF threads[t].op = "update_login_streak"
       THEN /\ users' = login_write(users, UserId, threads[t].current_time,
                                    threads[t].d)
            /\ threads' = [threads EXCEPT ![t] =
                  returned([threads[t] EXCEPT !.reward = threads[t].d.reward,
                                              !.streak = threads[t].d.streak],
                           TRUE, "", NoError)]
            /\ rewardLog' = IF threads[t].d.reward > 0
                            THEN Append(rewardLog, threads[t].current_time)
                            ELSE rewardLog
            /\ UNCHANGED lots
       ELSE /\ users' = trade_write(users, UserId, threads[t].d)
            /\ threads' = [threads EXCEPT ![t] = returned(@, TRUE, "", NoError)]
            /\ lots' = IF threads[t].op = "buy_stock"
                       THEN bought(lots, threads[t].symbol, threads[t].quantity,
                                   threads[t].price)
                       ELSE sold(lots, threads[t].symbol)
            /\ UNCHANGED rewardLog
    /\ UNCHANGED <<stocks, now, result, calls>>

\* the ledger after initialize_user(1) at StartTime
Initialised == initialize_user(<<>>, UserId, StartTime)

\* and after buy_stock(1, 'AAPL', 1000) at 250 dollars a share
FirstPurchase ==
    buy_stock(Initialised, <<>>, UserId, "AAPL", 100000, StartTime,
              [kind |-> "price", price |-> 250000])

ConcInit ==
    /\ now = StartTime
    /\ rewardLog = <<>>
    /\ threads = [t \in Threads |-> Idle]
    /\ \/ /\ users = Initialised
          /\ lots = <<>>
          /\ stocks = <<>>
          /\ result = [op |-> "initialize_user"]
          /\ calls = 0
       \/ /\ users = FirstPurchase.users
          /\ lots = bought(<<>>, "AAPL", FirstPurchase.shares_bought,
                           paid_price(FirstPurchase.stocks, "AAPL"))
          /\ stocks = FirstPurchase.stocks
          /\ result = [op |-> "buy_stock", ok |-> FirstPurchase.ok,
                        raised |-> FirstPurchase.raised,
                        error |-> FirstPurchase.error,
                        shares_bought |-> FirstPurchase.shares_bought,
                        cost |-> FirstPurchase.cost,
                        price_per_share |-> FirstPurchase.price_per_share,
                        feed_calls |-> FirstPurchase.feed_calls]
          /\ calls = 1

ConcNext ==
    \/ TickSeconds
    \/ \E t \in Threads :
        \/ Begin(t)
        \/ BatchFind(t)
        \/ CacheFind(t)
        \/ FeedCall(t)
        \/ CacheUpdate(t)
        \/ LedgerFind(t)
        \/ LedgerUpdate(t)

ConcSpec == ConcInit /\ [][ConcNext]_vars

----------------------------------------------------------------------------
(* Trades, one at a time, at prices and amounts that do not divide evenly, *)
(* by a user who sells what is held or a hundredth of a share              *)

LotPrices == {250004, 267900}      \* 250.004 and 267.900 dollars
LotAmounts == {268, 900000}        \* 2.68 and 9000 dollars

LotFeedAnswers(symbol) ==
    IF asks_feed(stocks, symbol, DefaultMaxAge, now)
    THEN [kind : {"price"}, price : LotPrices] \cup {[kind |-> "empty", price |-> 0]}
    ELSE {Unasked}

\* the quantity of symbol the user holds, in hundredths of a share
held_quantity(symbol) ==
    LET portfolio == users[find_user(users, UserId)].portfolio
        k == find_position(portfolio, symbol)
    IN  IF k = 0 THEN 0 ELSE portfolio[k].quantity

\* a sale of one hundredth of a share, or of everything held
LotSellQuantities(symbol) == {10, 10 * held_quantity(symbol)} \ {0}

LotBuy ==
    \E symbol \in Symbols, amount \in LotAmounts :
      \E feed \in LotFeedAnswers(symbol) :
        Buy(UserId, symbol, amount, feed)

LotSell ==
    \E symbol \in Symbols :
      \E quantity \in LotSellQuantities(symbol), feed \in LotFeedAnswers(symbol) :
        Sell(UserId, symbol, quantity, feed)

LotInit ==
    /\ users = Initialised
    /\ stocks = <<>>
    /\ now = StartTime
    /\ result = [op |-> "initialize_user"]
    /\ calls = 0
    /\ rewardLog = <<>>
    /\ threads = <<>>
    /\ lots = <<>>

LotNext == TickSeconds \/ LotBuy \/ LotSell

LotSpec == LotInit /\ [][LotNext]_vars

----------------------------------------------------------------------------
(* Portfolio views between purchases *)

LotFeeds ==
    [kind : {"price"}, price : LotPrices]
        \cup {[kind |-> "empty", price |-> 0], [kind |-> "raise", price |-> 0]}

StoredPortfolio == users[find_user(users, UserId)].portfolio

\* the feed's answers to the lookups of get_portfolio's loop, one for each
\* position whose symbol has no fresh cache entry
PortfolioFeeds ==
    {feeds \in [1..Len(StoredPortfolio) -> LotFeeds \cup {Unasked}] :
        \A k \in 1..Len(StoredPortfolio) :
            feeds[k] \in IF asks_feed(stocks, StoredPortfolio[k].symbol,
                                      DefaultMaxAge, now)
                         THEN LotFeeds ELSE {Unasked}}

\* and to the lookups calculate_all_time_return makes afterwards: it reaches
\* the feed for the positions whose first lookup failed
PortfolioFeedsAgain(feeds) ==
    {again \in [1..Len(StoredPortfolio) -> LotFeeds \cup {Unasked}] :
        \A k \in 1..Len(StoredPortfolio) :
            again[k] \in IF feeds[k].kind \in {"empty", "raise"}
                         THEN LotFeeds ELSE {Unasked}}

\* the state after get_portfolio returned r, and the response
portfolio_returned(r, feeds) ==
    /\ stocks' = r.stocks
    /\ result' = [op |-> "get_portfolio", ok |-> r.ok, raised |-> r.raised,
                  error |-> r.error, portfolio |-> r.portfolio,
                  buying_power |-> r.buying_power,
                  total_value |-> r.total_value,
                  all_time_returns |-> r.all_time_returns,
                  feed_calls |-> r.feed_calls,
                  feeds |-> feeds]     \* what the feed answered in the loop

\* get_portfolio saving the valued positions in the ledger
GetPortfolio_saves_view(user_id, feeds, feeds_again) ==
    /\ calls < MaxCalls
    /\ portfolio_returned(
           get_portfolio(users, stocks, user_id, now, feeds, feeds_again), feeds)
    /\ users' = [users EXCEPT ![find_user(users, user_id)].portfolio =
                     result'.portfolio]
    /\ calls' = calls + 1
    /\ UNCHANGED <<now, rewardLog, threads, lots>>

GetPortfolio(user_id, feeds, feeds_again) ==
    /\ calls < MaxCalls
    /\ portfolio_returned(
           get_portfolio(users, stocks, user_id, now, feeds, feeds_again), feeds)
    /\ calls' = calls + 1
    /\ UNCHANGED <<users, now, rewardLog, threads, lots>>

ViewPortfolio ==
    \E feeds \in PortfolioFeeds :
      \E feeds_again \in PortfolioFeedsAgain(feeds) :
        GetPortfolio(UserId, feeds, feeds_again)

\* what ticker.history(period='2d') may give: no close, one, two with a gain
\* or a loss, or an exception
Histories ==
    {[kind |-> "closes", closes |-> c] :
        c \in {<<>>, <<250004>>, <<250004, 267900>>, <<267900, 250004>>}}
      \cup {[kind |-> "raise", closes |-> <<>>]}

daily_returned(r, histories) ==
    result' = [op |-> "calculate_daily_return", ok |-> r.ok, error |-> r.error,
               daily_return |-> r.daily_return,
               portfolio_value_yesterday |-> r.portfolio_value_yesterday,
               portfolio_value_today |-> r.portfolio_value_today,
               stock_returns |-> r.stock_returns,
               histories |-> histories]   \* what the feed answered in the loop

CalculateDailyReturn(user_id, histories) ==
    /\ calls < MaxCalls
    /\ daily_returned(calculate_daily_return(users, user_id, histories),
                      histories)
    /\ calls' = calls + 1
    /\ UNCHANGED <<users, stocks, now, rewardLog, threads, lots>>

DailyReturn ==
    \E histories \in [1..Len(StoredPortfolio) -> Histories] :
        CalculateDailyReturn(UserId, histories)

all_time_returned(r, feeds) ==
    /\ stocks' = r.stocks
    /\ result' = [op |-> "calculate_all_time_return", ok |-> r.ok,
                  error |-> r.error, current_value |-> r.current_value,
                  initial_investment |-> r.initial_investment,
                  total_return |-> r.total_return, priced |-> r.priced,
                  feed_calls |-> r.feed_calls,
                  feeds |-> feeds]     \* what the feed answered in the loop

CalculateAllTimeReturn(user_id, feeds) ==
    /\ calls < MaxCalls
    /\ all_time_returned(
           calculate_all_time_return(users, stocks, user_id, now, feeds), feeds)
    /\ calls' = calls + 1
    /\ UNCHANGED <<users, now, rewardLog, threads, lots>>

AllTimeReturn ==
    \E feeds \in PortfolioFeeds : CalculateAllTimeReturn(UserId, feeds)

ViewNext ==
    TickSeconds \/ LotBuy \/ ViewPortfolio \/ DailyReturn \/ AllTimeReturn

ViewSpec == LotInit /\ [][ViewNext]_vars

----------------------------------------------------------------------------
(* POST /login between purchases, over the days *)

with_streak_returned(r) ==
    /\ users' = r.users
    /\ stocks' = r.stocks
    /\ result' = [op |-> "get_portfolio_with_streak", ok |-> r.ok,
                  raised |-> r.raised, reward |-> r.reward,
                  streak |-> r.streak]
    /\ rewardLog' = IF r.reward > 0 THEN Append(rewardLog, now) ELSE rewardLog

GetPortfolioWithStreak(user_id, feeds, feeds_again) ==
    /\ calls < MaxCalls
    /\ with_streak_returned(
           get_portfolio_with_streak(users, stocks, user_id, now, feeds,
                                     feeds_again))
    /\ calls' = calls + 1
    /\ UNCHANGED <<now, threads, lots>>

LoginRoute ==
    \E feeds \in PortfolioFeeds :
      \E feeds_again \in PortfolioFeedsAgain(feeds) :
        GetPortfolioWithStreak(UserId, feeds, feeds_again)

LoginRouteNext == TickHours \/ LotBuy \/ LoginRoute

LoginRouteSpec == LotInit /\ [][LoginRouteNext]_vars

----------------------------------------------------------------------------
(* Logins over the days, with trades in between *)

GapBuy ==
    \E feed \in FeedAnswers("AAPL", DefaultMaxAge) :
        Buy(UserId, "AAPL", 100000, feed)

GapSell ==
    \E feed \in FeedAnswers("AAPL", DefaultMaxAge) :
        Sell(UserId, "AAPL", 2000, feed)

GapNext == TickHours \/ UpdateLoginStreak \/ GapBuy \/ GapSell

GapSpec == LotInit /\ [][GapNext]_vars

----------------------------------------------------------------------------
(* Properties *)

\* what the claims read off the state
Portfolios == {users[i].portfolio : i \in 1..Len(users)}
HasLedger == Len(users) > 0
Cash == users[1].buying_power
Held(symbol) ==
    LET pf == users[1].portfolio
        I == {k \in 1..Len(pf) : pf[k].symbol = symbol}
    IN  IF I = {} THEN 0 ELSE pf[Min(I)].quantity
HeldAfter(symbol) ==
    LET pf == users'[1].portfolio
        I == {k \in 1..Len(pf) : pf[k].symbol = symbol}
    IN  IF I = {} THEN 0 ELSE pf[Min(I)].quantity
FreshEntries(symbol, max_age) ==
    {i \in 1..Len(stocks) :
        stocks[i].symbol = symbol /\ now - stocks[i].timestamp < max_age}
DateOf(t) == t \div Day
RewardDates == {DateOf(rewardLog[i]) : i \in 1..Len(rewardLog)}
AnyFeed == FeedOutcomes \cup {Unasked}
FeedFailures == {f \in FeedOutcomes : f.kind # "price"}
\* the price a trade of the symbol made now works with, the feed answering f
PriceSeen(symbol, f) ==
    IF FreshEntries(symbol, DefaultMaxAge) # {}
    THEN stocks[Min(FreshEntries(symbol, DefaultMaxAge))].price
    ELSE f.price
PriceKnown(symbol, f) ==
    FreshEntries(symbol, DefaultMaxAge) # {} \/ f.kind = "price"

\* C1: a ledger holds at most one position per symbol and every position it
\* holds has quantity >= 0.01; a sale that leaves less than 0.01 removes the
\* position.
C1_PositionsWellFormed ==
    \A pf \in Portfolios :
        /\ \A a, b \in 1..Len(pf) : pf[a].symbol = pf[b].symbol => a = b
        /\ \A a \in 1..Len(pf) : pf[a].quantity >= MinQuantity
C1_SaleRemoves ==
    \A symbol \in Symbols, quantity \in SellQuantities, f \in AnyFeed :
        (/\ result'.op = "sell_stock" /\ result'.ok
         /\ Held(symbol) - Round(quantity, 10) < MinQuantity
         /\ Sell(UserId, symbol, quantity, f))
            => \A k \in 1..Len(users'[1].portfolio) :
                  users'[1].portfolio[k].symbol # symbol
C1_Positions == []C1_PositionsWellFormed /\ [][C1_SaleRemoves]_vars
C1_Witness ==
    /\ result.op = "sell_stock" /\ result.ok /\ result.value > 0
    /\ users[1].portfolio = <<>>

\* C2: buying_power never goes below zero; a buy that costs more than the
\* balance is refused with 'Insufficient funds', one that costs exactly the
\* balance goes through and leaves zero.
C2_NonNegative == \A i \in 1..Len(users) : users[i].buying_power >= 0
C2_FundsCheck ==
    \A symbol \in Symbols, amount \in DollarAmounts, f \in AnyFeed :
        (/\ result'.op = "buy_stock"
         /\ HasLedger /\ amount > 0 /\ PriceKnown(symbol, f)
         /\ Round(amount * 1000, PriceSeen(symbol, f)) >= MinQuantity
         /\ Buy(UserId, symbol, amount, f))
            => LET price == PriceSeen(symbol, f)
                   cost == Round(price * Round(amount * 1000, price), 1000)
               IN  /\ cost > Cash =>
                          /\ ~result'.ok
                          /\ result'.error.msg = "Insufficient funds"
                          /\ users' = users
                   /\ cost = Cash => result'.ok /\ users'[1].buying_power = 0
                   /\ cost < Cash => result'.ok
C2_CashNeverNegative == []C2_NonNegative /\ [][C2_FundsCheck]_vars
C2_Witness ==
    /\ result.op = "buy_stock" /\ result.ok
    /\ HasLedger /\ Cash = 0

\* what the two interleaved calls started from and ended with
Trades == {"buy_stock", "sell_stock"}
StartLedger ==
    IF result.op = "initialize_user" THEN Initialised ELSE FirstPurchase.users
BothReturned == \A t \in Threads : threads[t].pc = "done"
\* the ledger after the trade of thread record th has run alone on the ledger
\* coll, at the price that trade worked with (no price: no ledger access)
RunAlone(coll, th) ==
    LET quantity == IF th.op = "buy_stock" THEN buy_quantity(th.amount, th.price)
                    ELSE sell_quantity(th.amount)
        total == trade_total(th.price, quantity)
        d == IF th.op = "buy_stock"
             THEN buy_decision(coll, UserId, th.symbol, quantity, total, th.price)
             ELSE sell_decision(coll, UserId, th.symbol, quantity, total)
    IN  IF th.price = 0 THEN coll
        ELSE IF th.op = "buy_stock" /\ quantity < MinQuantity THEN coll
        ELSE trade_write(coll, UserId, d)

\* C3: two trades on one user id that run interleaved leave the ledger that
\* running them one after the other, in one of the two orders, leaves.
C3_SerialOutcome ==
    (BothReturned /\ \A t \in Threads : threads[t].op \in Trades)
        => users \in {RunAlone(RunAlone(StartLedger, threads[1]), threads[2]),
                      RunAlone(RunAlone(StartLedger, threads[2]), threads[1])}

\* C4: a rewarded login interleaved with a successful trade loses neither
\* update: the balance ends at start + 100 - cost (or + value) and the
\* portfolio is the one the trade wrote.
C4_NoLostUpdate ==
    \A a, b \in Threads :
        (/\ BothReturned
         /\ threads[a].op = "update_login_streak"
         /\ threads[a].reward = DailyReward
         /\ threads[b].op \in Trades /\ threads[b].ok)
            => /\ users[1].buying_power =
                      StartLedger[1].buying_power + DailyReward
                          + (IF threads[b].op = "buy_stock" THEN 0 - threads[b].total
                             ELSE threads[b].total)
               /\ users[1].portfolio =
                      RunAlone(StartLedger, threads[b])[1].portfolio

\* C5: a trade that returns an error leaves the ledger as it was; selling
\* more than is held is such an error.
C5_ErrorKeepsLedger ==
    (/\ result'.op \in {"buy_stock", "sell_stock"} /\ ~result'.ok
     /\ calls' = calls + 1)
        => users' = users
C5_OversellRefused ==
    \A symbol \in Symbols, quantity \in SellQuantities, f \in AnyFeed :
        (/\ result'.op = "sell_stock"
         /\ HasLedger /\ PriceKnown(symbol, f)
         /\ Held(symbol) > 0 /\ Round(quantity, 10) > Held(symbol)
         /\ Sell(UserId, symbol, quantity, f))
            => ~result'.ok /\ result'.error.msg = "Insufficient shares"
C5_ErrorsChangeNothing == [][C5_ErrorKeepsLedger /\ C5_OversellRefused]_vars
C5_Witness ==
    /\ result.op = "sell_stock" /\ ~result.ok
    /\ result.error.msg = "Insufficient shares"
    /\ HasLedger /\ users[1].portfolio # <<>>

\* C6: get_stock_price answers from a cache entry younger than max_age without
\* asking the feed; otherwise it asks the feed exactly once and, given a
\* price, stores it with the current time and returns it.
C6_Lookup ==
    \A symbol \in Symbols, max_age \in MaxAges, f \in AnyFeed :
        GetPrice(symbol, max_age, f) =>
            IF FreshEntries(symbol, max_age) # {}
            THEN /\ result'.ok /\ result'.feed_calls = 0
                 /\ \E i \in FreshEntries(symbol, max_age) :
                        result'.price = stocks[i].price
                 /\ stocks' = stocks
            ELSE /\ result'.feed_calls = 1
                 /\ f.kind = "price" =>
                        /\ result'.ok /\ result'.price = f.price
                        /\ \E j \in 1..Len(stocks') :
                              /\ stocks'[j] = [symbol |-> symbol, price |-> f.price,
                                               timestamp |-> now]
                              /\ \A i \in 1..Len(stocks') :
                                    i # j => /\ i <= Len(stocks)
                                             /\ stocks'[i] = stocks[i]
                                             /\ stocks[i].symbol # symbol
C6_CacheOrOneFetch == [][C6_Lookup]_vars
C6_Witness ==
    /\ result.op = "get_stock_price" /\ result.ok /\ result.feed_calls = 0
    /\ \E i \in 1..Len(stocks) :
          stocks[i].price = result.price /\ stocks[i].timestamp < now

\* C7: with no fresh cache entry and a feed that gives no data or raises, the
\* price lookup fails after one feed invocation with an error naming the symbol
\* and the cause, and buy_stock and sell_stock return it as an error result.
FeedCause(symbol, f) ==
    IF f.kind = "empty" THEN "No price data available for " \o symbol
    ELSE "feed exception"
C7_Trade ==
    \A symbol \in Symbols, f \in FeedFailures :
        (/\ result'.op \in {"buy_stock", "sell_stock"}
         /\ FreshEntries(symbol, DefaultMaxAge) = {}
         /\ \/ \E amount \in DollarAmounts :
                  amount > 0 /\ Buy(UserId, symbol, amount, f)
            \/ \E quantity \in SellQuantities :
                  quantity > 0 /\ Sell(UserId, symbol, quantity, f))
            => /\ ~result'.ok /\ result'.raised = ""
               /\ result'.error = [msg |-> "Error fetching price for",
                                   symbol |-> symbol,
                                   cause |-> FeedCause(symbol, f)]
               /\ result'.feed_calls = 1
C7_PriceUnavailable == [][C7_Trade]_vars
C7_Witness ==
    /\ result.op = "sell_stock" /\ ~result.ok /\ result.raised = ""
    /\ result.error.msg = "Error fetching price for"
    /\ result.error.cause = "feed exception"
    /\ result.feed_calls = 1

\* C8: in the result of get_multiple_stock_prices every requested symbol is a
\* key of exactly one of prices and errors.
C8_ExactlyOneMap ==
    result.op = "get_multiple_stock_prices" =>
        \A k \in 1..Len(result.symbols) :
            (result.symbols[k] \in DOMAIN result.prices)
                # (result.symbols[k] \in DOMAIN result.errors)

\* C9: the cache holds at most one document per symbol, whatever calls ran and
\* however they interleaved: the upsert overwrites the symbol's document if
\* there is one and adds one only if there is none.
C9_OneEntryPerSymbol ==
    \A i, j \in 1..Len(stocks) : stocks[i].symbol = stocks[j].symbol => i = j
C9_Upsert ==
    \A t \in Threads :
        (threads[t].pc = "cache_update" /\ CacheUpdate(t)) =>
            LET entry == [symbol |-> threads[t].symbol, price |-> threads[t].price,
                          timestamp |-> threads[t].current_time]
                I == {i \in 1..Len(stocks) : stocks[i].symbol = entry.symbol}
            IN  IF I = {} THEN stocks' = Append(stocks, entry)
                ELSE /\ Len(stocks') = Len(stocks)
                     /\ \A i \in 1..Len(stocks) :
                           stocks'[i] = IF i \in I THEN entry ELSE stocks[i]
C10_OneRewardPerDate ==
    \A i, j \in 1..Len(rewardLog) :
        DateOf(rewardLog[i]) = DateOf(rewardLog[j]) => i = j
C10_Login ==
    (result'.op = "update_login_streak" /\ HasLedger /\ Login(UserId)) =>
        IF DateOf(now) \in RewardDates
        THEN result'.reward = 0 /\ users'[1].buying_power = Cash
        ELSE /\ result'.reward \in {0, DailyReward}
             /\ users'[1].buying_power = Cash + result'.reward
C10_DailyRewardOnce == []C10_OneRewardPerDate /\ [][C10_Login]_vars
C10_Witness ==
    /\ result.op = "update_login_streak" /\ result.ok /\ result.reward = 0
    /\ Len(rewardLog) > 0
    /\ DateOf(rewardLog[Len(rewardLog)]) = DateOf(now)
    /\ rewardLog[Len(rewardLog)] < now

\* C11: for a user who has claimed a reward before, a login on the date after
\* the last login's date sets streak to the old streak + 1 with reward=100, a
\* login two or more dates later sets streak to 1 with reward=100; a user who
\* never claimed gets streak 1 and reward=100 whatever last_login holds.
C11_Login ==
    (result'.op = "update_login_streak" /\ HasLedger /\ Login(UserId)) =>
        LET claimed == users[1].streak_reward_claimed # None
            gap == DateOf(now) - DateOf(users[1].last_login)
            expected == IF ~claimed THEN 1
                        ELSE IF gap = 1 THEN users[1].streak + 1 ELSE 1
        IN  (~claimed \/ gap >= 1) =>
                /\ result'.streak = expected
                /\ result'.reward = DailyReward
                /\ users'[1].streak = expected
                /\ users'[1].buying_power = Cash + DailyReward
C11_StreakTable == [][C11_Login]_vars
C11_Witness ==
    /\ result.op = "update_login_streak" /\ result.ok
    /\ result.streak = 1 /\ result.reward = DailyReward
    /\ Len(rewardLog) = 3
    /\ DateOf(rewardLog[2]) = DateOf(rewardLog[1]) + 1
    /\ DateOf(rewardLog[3]) >= DateOf(rewardLog[2]) + 2

\* what a login that only stamps last_login does
C12_OnlyLastLogin ==
    /\ result'.reward = 0
    /\ result'.message = "Welcome back!"
    /\ result'.streak = users[1].streak
    /\ users' = [users EXCEPT ![1].last_login = now]
C12_SameDate == HasLedger /\ DateOf(now) = DateOf(users[1].last_login)

\* C12: a login on the same calendar date as the stored last login changes
\* only last_login: streak, streak_reward_claimed, buying_power and portfolio
\* keep their values, and the result is 'welcome back' with reward=0.
C12_SameDateLogin ==
    [][(result'.op = "update_login_streak" /\ C12_SameDate /\ Login(UserId))
          => C12_OnlyLastLogin]_vars

\* C13: of two update_login_streak calls for one user that run interleaved on
\* one calendar date, at most one returns reward=100, and buying_power grows
\* by 100 at most.
C13_OneRewardedLogin ==
    (/\ BothReturned
     /\ \A t \in Threads : threads[t].op = "update_login_streak"
     /\ DateOf(now) = DateOf(StartTime))
        => /\ \E t \in Threads : threads[t].reward = 0
           /\ Cash <= StartLedger[1].buying_power + DailyReward

\* the lots of a symbol: their total quantity and what was paid for them, in
\* hundredths of a share times thousandths of a dollar
RECURSIVE LotsQuantity(_)
LotsQuantity(ls) ==
    IF ls = <<>> THEN 0 ELSE ls[1].quantity + LotsQuantity(Tail(ls))
RECURSIVE LotsPaid(_)
LotsPaid(ls) ==
    IF ls = <<>> THEN 0 ELSE ls[1].quantity * ls[1].price + LotsPaid(Tail(ls))
Abs(x) == IF x < 0 THEN 0 - x ELSE x
LotsOf(symbol) ==
    LET Same(lot) == lot.symbol = symbol IN SelectSeq(lots, Same)
LotsAfter(symbol) ==
    LET Same(lot) == lot.symbol = symbol IN SelectSeq(lots', Same)
AveragePrice(symbol) ==
    users[1].portfolio[find_position(users[1].portfolio, symbol)].average_price
AveragePriceAfter(symbol) ==
    users'[1].portfolio[find_position(users'[1].portfolio, symbol)].average_price
\* the position was built by the recorded lots alone
BoughtOnly(symbol) ==
    /\ HasLedger /\ Held(symbol) > 0
    /\ LotsQuantity(LotsOf(symbol)) = Held(symbol)
\* |average_price - weighted mean of the lots| times the quantity held
MeanGap(symbol) ==
    Abs(10 * AveragePrice(symbol) * Held(symbol) - LotsPaid(LotsOf(symbol)))

\* C14: after any sequence of successful buys of a symbol with no sale in
\* between, average_price is within 0.01 of the quantity-weighted mean of the
\* lots' execution prices.
C14_MeanWithinRounding ==
    \A symbol \in Symbols :
        BoughtOnly(symbol) => MeanGap(symbol) <= 10 * Held(symbol)

\* C14, as the code has it: a first buy sets average_price to round(price, 2);
\* a buy of a held symbol sets quantity to old_qty + bought_qty and
\* average_price to round((old_qty*old_avg + bought_qty*price) / new_qty, 2);
\* after n buys with no sale in between average_price is within n * 0.005
\* of the quantity-weighted mean of the lots' prices.
C14_MeanDrift ==
    \A symbol \in Symbols :
        BoughtOnly(symbol) =>
            MeanGap(symbol) <= 5 * Len(LotsOf(symbol)) * Held(symbol)
C14_Buy ==
    \A symbol \in Symbols :
        (/\ result'.op = "buy_stock" /\ result'.ok
         /\ Len(LotsAfter(symbol)) = Len(LotsOf(symbol)) + 1) =>
            LET q == result'.shares_bought
                p == LotsAfter(symbol)[Len(LotsAfter(symbol))].price
                old == Held(symbol)
            IN  /\ HeldAfter(symbol) = old + q
                /\ IF old = 0
                   THEN 2 * Abs(10 * AveragePriceAfter(symbol) - p) <= 10
                   ELSE 2 * Abs(10 * (old + q) * AveragePriceAfter(symbol)
                                  - (10 * old * AveragePrice(symbol) + q * p))
                            <= 10 * (old + q)
C14_AveragePrice == []C14_MeanDrift /\ [][C14_Buy]_vars
C14_Witness ==
    /\ BoughtOnly("AAPL") /\ Len(LotsOf("AAPL")) = 3
    /\ LotsOf("AAPL")[1].price # LotsOf("AAPL")[2].price
    /\ MeanGap("AAPL") > 10 * Held("AAPL")

\* the sale got its price: from the cache, or from the feed
Priced(feed) == feed.kind \in {"price", "unasked"}

\* C15: once a symbol has been bought, a sale (that gets its price) of exactly
\* the quantity held succeeds and leaves no position of the symbol in the
\* ledger; a sale of a symbol with no position is rejected as 'Stock not found
\* in portfolio' and changes nothing.
C15_Sell ==
    \A symbol \in Symbols :
      \A quantity \in LotSellQuantities(symbol), feed \in LotFeedAnswers(symbol) :
        (/\ result'.op = "sell_stock" /\ Priced(feed)
         /\ Sell(UserId, symbol, quantity, feed)) =>
            /\ (Held(symbol) > 0 /\ quantity = 10 * Held(symbol)) =>
                   /\ result'.ok
                   /\ find_position(users'[1].portfolio, symbol) = 0
                   /\ Len(users'[1].portfolio) = Len(users[1].portfolio) - 1
            /\ Held(symbol) = 0 =>
                   /\ ~result'.ok
                   /\ result'.error.msg = "Stock not found in portfolio"
                   /\ users' = users
C15_FullSaleRemoves == [][C15_Sell]_vars
C15_Witness ==
    /\ result.op = "sell_stock" /\ ~result.ok
    /\ result.error.msg = "Stock not found in portfolio"
    /\ calls = 3 /\ users[1].portfolio = <<>>
    /\ Cash > StartingBalance
    /\ Len(stocks) = 1 /\ stocks[1].symbol = "AAPL"

\* the most recent purchase, when the last call was a successful buy
LastLot == lots[Len(lots)]
JustBought == result.op = "buy_stock" /\ result.ok /\ Len(lots) > 0
\* the sale works with the price the purchase was made at
SamePrice(feed) ==
    \/ feed.kind = "unasked"
    \/ feed.kind = "price" /\ feed.price = LastLot.price

\* C16: after a successful buy that returned shares_bought = q, a sale of q
\* of the same symbol made next, at the same price (from the cache, or the
\* feed answering the same price), succeeds and brings buying_power back to
\* within 0.01 of what it was before the buy.
C16_Sell ==
    \A symbol \in Symbols :
      \A quantity \in LotSellQuantities(symbol), feed \in LotFeedAnswers(symbol) :
        (/\ JustBought /\ result'.op = "sell_stock"
         /\ LastLot.symbol = symbol
         /\ quantity = 10 * result.shares_bought
         /\ SamePrice(feed)
         /\ Sell(UserId, symbol, quantity, feed)) =>
            /\ result'.ok
            /\ result'.value = result.cost
            /\ Abs(users'[1].buying_power - (Cash + result.cost)) <= 1
C16_RoundTrip == [][C16_Sell]_vars
C16_Witness ==
    /\ result.op = "sell_stock" /\ result.ok /\ result.value = 268
    /\ calls = 3 /\ Held("AAPL") = 3600 /\ now > StartTime
    /\ Cash = StartingBalance - 900014

\* the call works with this price: fetched now, or cached and still fresh
WorksAt(symbol, feed, price) ==
    \/ feed.kind = "price" /\ feed.price = price
    \/ feed.kind = "unasked" /\ paid_price(stocks, symbol) = price

\* C17: with 10000 cash and no positions, buying 1000 dollars of a symbol
\* priced 250 returns shares_bought 4.0 and cost 1000.00 and leaves a position
\* of 4.0 at average_price 250.00 and 9000.00 cash; selling 2.0 of it at 260
\* then returns value 520.00 and leaves quantity 2.0 and 9520.00 cash.
C17_Buy ==
    \A symbol \in Symbols :
      \A feed \in FeedAnswers(symbol, DefaultMaxAge) :
        (/\ result'.op = "buy_stock" /\ HasLedger
         /\ Cash = 1000000 /\ users[1].portfolio = <<>>
         /\ WorksAt(symbol, feed, 250000)
         /\ Buy(UserId, symbol, 100000, feed)) =>
            /\ result'.ok
            /\ result'.shares_bought = 400 /\ result'.cost = 100000
            /\ users'[1].portfolio =
                   <<[symbol |-> symbol, quantity |-> 400, average_price |-> 25000]>>
            /\ users'[1].buying_power = 900000
C17_Sell ==
    \A symbol \in Symbols :
      \A feed \in FeedAnswers(symbol, DefaultMaxAge) :
        (/\ result'.op = "sell_stock" /\ HasLedger
         /\ Cash = 900000
         /\ users[1].portfolio =
                <<[symbol |-> symbol, quantity |-> 400, average_price |-> 25000]>>
         /\ WorksAt(symbol, feed, 260000)
         /\ Sell(UserId, symbol, 2000, feed)) =>
            /\ result'.ok
            /\ result'.value = 52000
            /\ users'[1].portfolio =
                   <<[symbol |-> symbol, quantity |-> 200, average_price |-> 25000]>>
            /\ users'[1].buying_power = 952000
C17_WorkedExample == [][C17_Buy /\ C17_Sell]_vars
C17_Witness ==
    /\ result.op = "sell_stock" /\ result.ok /\ result.value = 52000
    /\ calls = 2 /\ HasLedger /\ Cash = 952000
    /\ users[1].portfolio =
           <<[symbol |-> "AAPL", quantity |-> 200, average_price |-> 25000]>>
    /\ lots = <<>>

\* C18: initialize_user on a user id with no ledger creates one with
\* buying_power 10000, an empty portfolio, streak 0, and neither a last-login
\* nor a last-reward timestamp.
C18_Initialize ==
    \A user_id \in UserIds :
        (/\ result'.op = "initialize_user"
         /\ find_user(users, user_id) = 0
         /\ Initialize(user_id)) =>
            users' = Append(users,
                            [user_id |-> user_id, portfolio |-> <<>>,
                             buying_power |-> 1000000, streak |-> 0,
                             last_login |-> None,
                             streak_reward_claimed |-> None])
C18_FreshLedger == [][C18_Initialize]_vars

\* C19: initialize_user on a user id that has a ledger changes nothing, and
\* no user id ever has two ledger documents, however often it is called.
C19_OneLedgerPerUser ==
    \A i, j \in 1..Len(users) : users[i].user_id = users[j].user_id => i = j
C19_Initialize ==
    \A user_id \in UserIds :
        (/\ result'.op = "initialize_user"
         /\ find_user(users, user_id) # 0
         /\ Initialize(user_id)) =>
            UNCHANGED <<users, stocks, rewardLog, lots>>
C19_InitializeAgain == []C19_OneLedgerPerUser /\ [][C19_Initialize]_vars
C19_Witness ==
    /\ result.op = "initialize_user" /\ Len(users) = 1
    /\ users[1].portfolio # <<>> /\ users[1].streak = 1
    /\ users[1].last_login > StartTime
    /\ Cash # StartingBalance /\ calls = 2

\* the value of the positions of a view whose price was available, in
\* hundred-thousandths of a dollar
RECURSIVE PricedValue(_)
PricedValue(view) ==
    IF view = <<>> THEN 0
    ELSE (IF Head(view).current_value = None THEN 0 ELSE Head(view).current_value)
             + PricedValue(Tail(view))

\* the lookup of the k-th position reached the feed and the feed gave no price
FetchFails(feeds, k) == feeds[k].kind \in {"empty", "raise"}

\* the price the lookup of the k-th position yields when it does not fail: the
\* feed's, or the fresh cached one
FetchedPrice(feeds, k) ==
    IF feeds[k].kind = "price" THEN feeds[k].price
    ELSE paid_price(stocks, StoredPortfolio[k].symbol)

C20_Position(feeds, k) ==
    LET held == StoredPortfolio[k]
        seen == result'.portfolio[k]
    IN  /\ seen.symbol = held.symbol
        /\ seen.quantity = held.quantity
        /\ IF FetchFails(feeds, k)
           THEN seen.current_price = None /\ seen.current_value = None
           ELSE /\ seen.current_price = FetchedPrice(feeds, k)
                /\ seen.current_value = seen.current_price * seen.quantity

\* a step of get_portfolio: no other operation counts a call and leaves a
\* get_portfolio response
ViewReturned == result'.op = "get_portfolio" /\ calls' = calls + 1

C20_View ==
    ViewReturned =>
        /\ result'.feeds \in PortfolioFeeds
        /\ result'.ok
        /\ result'.error = NoError
        /\ Len(result'.portfolio) = Len(StoredPortfolio)
        /\ \A k \in 1..Len(StoredPortfolio) : C20_Position(result'.feeds, k)
        /\ result'.buying_power = Cash
        /\ result'.total_value = 1000 * Cash + PricedValue(result'.portfolio)

\* C20: get_portfolio for an existing user always returns a portfolio view,
\* whichever of the held symbols have no price: a position whose price fetch
\* fails is reported with current_price and current_value None, every other
\* position with current_value = current_price * quantity, and total_value is
\* the cash balance plus the current_value of the positions that were priced.
C20_PortfolioView == [][C20_View]_vars

\* a view of two positions, one priced and one whose price was unavailable,
\* and one of a position alone whose price was unavailable
C20_Witness ==
    /\ result.op = "get_portfolio" /\ result.ok
    /\ Len(result.portfolio) = 2
    /\ \E j, k \in 1..2 :
          /\ result.portfolio[j].current_price = None
          /\ result.portfolio[k].current_price # None
          /\ result.portfolio[k].current_value > 0
    /\ result.total_value > 1000 * result.buying_power
    /\ \E k \in 1..2 : result.feeds[k].kind = "raise"

\* a step of calculate_daily_return
DailyReturned == result'.op = "calculate_daily_return" /\ calls' = calls + 1

\* the history of the k-th position has fewer than two closes
ShortHistory(histories, k) ==
    histories[k].kind = "closes" /\ Len(histories[k].closes) < 2

\* the totals of calculate_daily_return over the positions with two closes
RECURSIVE TwoCloseTotals(_, _, _)
TwoCloseTotals(portfolio, histories, k) ==
    IF k > Len(portfolio) THEN [yesterday |-> 0, today |-> 0]
    ELSE LET rest == TwoCloseTotals(portfolio, histories, k + 1)
             c == histories[k].closes
         IN  IF histories[k].kind = "closes" /\ Len(c) >= 2
             THEN [yesterday |-> rest.yesterday
                                   + c[Len(c) - 1] * portfolio[k].quantity,
                   today |-> rest.today + c[Len(c)] * portfolio[k].quantity]
             ELSE rest

C21_Totals ==
    LET t == TwoCloseTotals(StoredPortfolio, result'.histories, 1)
    IN  /\ result'.portfolio_value_yesterday = 1000 * Cash + t.yesterday
        /\ result'.portfolio_value_today = 1000 * Cash + t.today
        /\ result'.daily_return = t.today - t.yesterday

C21_Entries ==
    \A k \in 1..Len(StoredPortfolio) :
        ShortHistory(result'.histories, k) =>
            \E e \in 1..Len(result'.stock_returns) :
                /\ result'.stock_returns[e].symbol = StoredPortfolio[k].symbol
                /\ result'.stock_returns[e].error

\* C21: in calculate_daily_return a held symbol whose history has fewer than
\* two daily closes adds nothing to daily_return, portfolio_value_yesterday or
\* portfolio_value_today, and still appears in stock_returns as an entry with
\* an error marker.
C21_ShortHistory == [][DailyReturned => C21_Totals /\ C21_Entries]_vars

\* the part of C21 about the totals alone
C21_ShortHistorySkipped == [][DailyReturned => C21_Totals]_vars

\* a step of calculate_all_time_return
AllTimeReturned ==
    result'.op = "calculate_all_time_return" /\ calls' = calls + 1

\* average_price * quantity over the positions from the k-th on, in
\* hundred-thousandths of a dollar
RECURSIVE CostBasis(_, _)
CostBasis(portfolio, k) ==
    IF k > Len(portfolio) THEN 0
    ELSE 10 * portfolio[k].average_price * portfolio[k].quantity
             + CostBasis(portfolio, k + 1)

\* current_price * quantity over the positions from the k-th on whose price
\* was got
RECURSIVE MarketValue(_, _, _)
MarketValue(portfolio, feeds, k) ==
    IF k > Len(portfolio) THEN 0
    ELSE (IF FetchFails(feeds, k) THEN 0
          ELSE FetchedPrice(feeds, k) * portfolio[k].quantity)
             + MarketValue(portfolio, feeds, k + 1)

C22_Return ==
    AllTimeReturned =>
        /\ result'.ok
        /\ result'.initial_investment
              = 1000 * StartingBalance + CostBasis(StoredPortfolio, 1)
        /\ result'.current_value
              = 1000 * Cash + MarketValue(StoredPortfolio, result'.feeds, 1)
        /\ result'.total_return
              = result'.current_value - result'.initial_investment

\* C22: calculate_all_time_return reports initial_investment = 10000 + the sum
\* of average_price * quantity over all positions of the ledger, those whose
\* price cannot be fetched included, current_value = cash + the sum of
\* current_price * quantity, and total_return = current_value -
\* initial_investment.
C22_AllTimeReturn == [][C22_Return]_vars

PositionFields == {"symbol", "quantity", "average_price"}

C23_Valuation ==
    (ViewReturned \/ DailyReturned \/ AllTimeReturned) =>
        /\ users' = users
        /\ \A k \in 1..Len(users'[1].portfolio) :
              DOMAIN users'[1].portfolio[k] = PositionFields

\* C23: get_portfolio, calculate_daily_return and calculate_all_time_return
\* never change the stored ledger: cash, positions (with no current_price or
\* current_value added), streak and timestamps are after the call what they
\* were before it, also when prices are unavailable; only the price cache may
\* change.
C23_ValuationReadsOnly == [][C23_Valuation]_vars

\* a valuation of a held position that refreshed the cache for one symbol and
\* got no price for another
C23_Witness ==
    /\ result.op \in {"get_portfolio", "calculate_all_time_return"}
    /\ Len(users[1].portfolio) = 2
    /\ Cash < StartingBalance
    /\ \E j, k \in 1..2 : FetchFails(result.feeds, j)
                             /\ result.feeds[k].kind = "price"
    /\ \E c \in 1..Len(stocks) : stocks[c].timestamp = now /\ now > StartTime

\* a step of get_portfolio_with_streak
LoginRouteReturned ==
    result'.op = "get_portfolio_with_streak" /\ calls' = calls + 1

C24_Login ==
    LoginRouteReturned /\ HasLedger => result'.ok /\ result'.raised = ""

\* C24: get_portfolio_with_streak on an existing user runs the streak update
\* and then completes normally with the combined portfolio and streak result;
\* it never ends in an internal fault after the streak and the reward have
\* been written.
C24_LoginCompletes == [][C24_Login]_vars

\* thread t runs a trade and its call has read the ledger
LedgerRead(t) == threads[t].op \in Trades /\ threads[t].d # NoDecision

\* this step is a call of the feed by thread t
AsksFeed(t) == threads'[t].feed_calls > threads[t].feed_calls

C25_Step(t) ==
    /\ AsksFeed(t) => ~LedgerRead(t)
    /\ LedgerRead(t) /\ threads'[t] # threads[t] =>
          /\ threads[t].pc = "ledger_update"
          /\ threads'[t].pc = "done"
          /\ users' = trade_write(users, UserId, threads[t].d)

\* C25: in buy_stock and sell_stock the price feed is never invoked between
\* the call's read of the ledger and its write of the ledger: the price
\* lookup, with any feed call it makes, is over before the ledger is read, and
\* the step after the read is the write.
C25_FeedOutsideWindow ==
    [][\A t \in Threads : threads[t].op \in Trades => C25_Step(t)]_vars

\* one trade has asked the feed and read the ledger and is about to write,
\* while the other trade waits for the feed
C25_Witness ==
    \E t, o \in Threads :
        /\ LedgerRead(t) /\ threads[t].pc = "ledger_update"
        /\ threads[t].feed_calls = 1
        /\ threads[o].op \in Trades /\ threads[o].pc = "feed"

\* the positions of a portfolio in symbols other than the given one, in order
Others(portfolio, symbol) ==
    LET Other(position) == position.symbol # symbol
    IN  SelectSeq(portfolio, Other)

LoginFieldsKept ==
    /\ users'[1].streak = users[1].streak
    /\ users'[1].last_login = users[1].last_login
    /\ users'[1].streak_reward_claimed = users[1].streak_reward_claimed

\* what a successful trade in symbol leaves alone
TradeFrame(symbol) ==
    /\ Len(users') = Len(users)
    /\ users'[1].user_id = users[1].user_id
    /\ LoginFieldsKept
    /\ Others(users'[1].portfolio, symbol) = Others(users[1].portfolio, symbol)
    /\ LET before == find_position(users[1].portfolio, symbol)
           after == find_position(users'[1].portfolio, symbol)
       IN  /\ before # 0 /\ after # 0 => after = before
           /\ before = 0 /\ after # 0 => after = Len(users'[1].portfolio)

C26_Buy ==
    \A symbol \in Symbols, amount \in DollarAmounts :
      \A feed \in FeedAnswers(symbol, DefaultMaxAge) :
        (/\ result'.op = "buy_stock" /\ result'.ok
         /\ Buy(UserId, symbol, amount, feed)) => TradeFrame(symbol)

C26_Sell ==
    \A symbol \in Symbols, quantity \in SellQuantities :
      \A feed \in FeedAnswers(symbol, DefaultMaxAge) :
        (/\ result'.op = "sell_stock" /\ result'.ok
         /\ Sell(UserId, symbol, quantity, feed)) =>
            /\ TradeFrame(symbol)
            /\ find_position(users'[1].portfolio, symbol) # 0 =>
                  users'[1].portfolio[find_position(users'[1].portfolio, symbol)]
                          .average_price
                      = users[1].portfolio[find_position(users[1].portfolio,
                                                         symbol)].average_price

C26_Login ==
    (result'.op = "update_login_streak" /\ calls' = calls + 1) =>
        /\ Len(users') = Len(users)
        /\ HasLedger => users'[1].portfolio = users[1].portfolio

\* C26: each ledger writer touches only its own fields: a successful buy_stock
\* or sell_stock changes only the cash balance and the position of the traded
\* symbol (the other positions keep symbol, quantity, average_price and their
\* order, a partial sale keeps the average_price of the position sold from)
\* and leaves streak, last_login and streak_reward_claimed as they were;
\* update_login_streak never changes the positions.
C26_WritersKeepToTheirFields == [][C26_Buy /\ C26_Sell /\ C26_Login]_vars

\* a partial sale next to a position in the other symbol
C26_Witness ==
    /\ result.op = "sell_stock" /\ result.ok
    /\ Len(users[1].portfolio) = 2
    /\ \E symbol \in Symbols : Held(symbol) = 200
    /\ users[1].last_login # None

C27_Sale ==
    \A symbol \in Symbols, quantity \in SellQuantities :
      \A feed \in FeedAnswers(symbol, DefaultMaxAge) :
        (/\ result'.op = "sell_stock" /\ result'.ok
         /\ Sell(UserId, symbol, quantity, feed)) =>
            /\ sell_quantity(quantity) >= MinQuantity
            /\ HeldAfter(symbol) < Held(symbol)
            /\ users'[1].buying_power = Cash + result'.value
            /\ result'.value
                  = trade_total(paid_price(stocks', symbol),
                                sell_quantity(quantity))

\* C27: every successful sell_stock sells at least 0.01 shares: the quantity
\* after rounding to 2 decimals is >= 0.01, the held quantity of the symbol
\* goes down and the cash balance is credited round(price * quantity, 2); a
\* requested quantity that is positive but rounds to 0.00 is not reported as
\* a successful sale.
C27_SaleSellsShares == [][C27_Sale]_vars

\* what the call of this step reported to its caller as the change of the
\* balance, in cents
Reported ==
    IF result'.op = "buy_stock" THEN (IF result'.ok THEN 0 - result'.cost ELSE 0)
    ELSE IF result'.op = "sell_stock" THEN (IF result'.ok THEN result'.value ELSE 0)
    ELSE IF result'.op = "update_login_streak" THEN result'.reward
    ELSE 0

C28_Step ==
    /\ ~HasLedger /\ Len(users') > 0 => users'[1].buying_power = StartingBalance
    /\ HasLedger =>
          users'[1].buying_power
              = Cash + (IF calls' = calls + 1 THEN Reported ELSE 0)

\* C28: with calls of initialize_user, buy_stock, sell_stock and
\* update_login_streak made one at a time on a freshly initialised user, the
\* cash balance is 10000.00 + 100 for each call that returned reward=100 - the
\* cost of each successful buy + the value of each successful sell: the
\* balance starts at 10000.00 and every step changes it by exactly the amount
\* the call reported.
C28_BalanceAccounted == [][C28_Step]_vars

\* a rewarded login, a purchase and a sale with a gain have all been made
C28_Witness ==
    /\ HasLedger /\ Len(rewardLog) = 1
    /\ result.op = "sell_stock" /\ result.ok /\ result.value = 52000
    /\ Cash = StartingBalance + DailyReward - 100000 + 52000

C29_RewardNotAfterLogin ==
    \A i \in 1..Len(users) :
        users[i].streak_reward_claimed # None =>
            DateOf(users[i].streak_reward_claimed) <= DateOf(users[i].last_login)

\* a step of update_login_streak on an existing ledger
LoginReturned ==
    result'.op = "update_login_streak" /\ calls' = calls + 1 /\ HasLedger

C29_Login ==
    (/\ LoginReturned
     /\ users[1].streak_reward_claimed # None
     /\ DateOf(now) > DateOf(users[1].last_login)) =>
        /\ DateOf(now) > DateOf(users[1].streak_reward_claimed)
        /\ result'.reward = DailyReward
        /\ users'[1].buying_power = Cash + DailyReward

\* C29: in every state reached by calls made one at a time under a clock that
\* does not go back, a streak_reward_claimed that is present has a calendar
\* date not later than that of last_login; so the case 'new day since the last
\* login but reward already claimed today' never occurs, and every login on a
\* date later than that of the last login is credited.
C29_RewardDateBounded == []C29_RewardNotAfterLogin /\ [][C29_Login]_vars

\* a login on a later date than the last login, after a reward was claimed
C29_Witness ==
    /\ HasLedger /\ result.op = "update_login_streak" /\ result.reward = DailyReward
    /\ Len(rewardLog) >= 2
    /\ DateOf(rewardLog[Len(rewardLog)]) > DateOf(rewardLog[Len(rewardLog) - 1])
    /\ DateOf(users[1].streak_reward_claimed) = DateOf(users[1].last_login)

\* no login has been rewarded on the date of the clock: no login call has been
\* made on it yet, or none that was credited
NoRewardToday == DateOf(now) \notin RewardDates

C30_Login ==
    LoginReturned =>
        /\ NoRewardToday =>
              /\ result'.ok
              /\ result'.reward = DailyReward
              /\ users'[1].buying_power = Cash + DailyReward
        /\ users'[1].streak >= 1
        /\ users'[1].streak = result'.streak

\* C30: with calls made one at a time under a clock that does not go back,
\* the first update_login_streak call made on each UTC calendar date returns
\* reward=100 and raises the cash balance by exactly 100, whatever the gap
\* since the last login and whatever trades were made in between; after any
\* login the stored streak is >= 1.
C30_FirstLoginOfDateRewarded == [][C30_Login]_vars

\* a rewarded login, a purchase, and a rewarded login two or more dates later
C30_Witness ==
    /\ result.op = "update_login_streak" /\ result.reward = DailyReward
    /\ Len(rewardLog) = 2
    /\ DateOf(rewardLog[2]) >= DateOf(rewardLog[1]) + 2
    /\ Held("AAPL") > 0
    /\ users[1].streak = 1

\* every position of the ledger was bought at the price that the valuation of
\* this step got for its symbol
BoughtAtCurrentPrice ==
    /\ Len(StoredPortfolio) > 0
    /\ \A k \in 1..Len(StoredPortfolio) :
          /\ ~FetchFails(result'.feeds, k)
          /\ \A l \in 1..Len(lots) :
                lots[l].symbol = StoredPortfolio[k].symbol =>
                    lots[l].price = FetchedPrice(result'.feeds, k)

C31_Return ==
    (AllTimeReturned /\ rewardLog = <<>> /\ BoughtAtCurrentPrice) =>
        Abs(result'.total_return) <= 1000 * Len(lots)

\* C31: for a user who has received no login reward and whose every position
\* was bought at the price that is still the current price,
\* calculate_all_time_return reports total_return = 0 (and so a percentage of
\* 0) to within 2-decimal rounding, here 0.01 for each purchase: buying at an
\* unchanged price is by itself neither a gain nor a loss.
C31_NoGainAtUnchangedPrice == [][C31_Return]_vars

C32_FailedFetch ==
    \A symbol \in Symbols, max_age \in MaxAges, f \in FeedFailures :
        (/\ result'.op = "get_stock_price"
         /\ asks_feed(stocks, symbol, max_age, now)
         /\ GetPrice(symbol, max_age, f)) =>
            /\ ~result'.ok /\ result'.feed_calls = 1
            /\ stocks' = stocks

\* the cache changes only in a step whose call got a price from the feed, and
\* then only in entries stamped with the time of the fetch
C32_WrittenByFetch ==
    stocks' # stocks =>
        /\ result'.feed_calls >= 1
        /\ result'.op = "get_stock_price" => result'.ok
        /\ \A i \in 1..Len(stocks') :
              (i > Len(stocks) \/ stocks'[i] # stocks[i]) =>
                  stocks'[i].timestamp = now

\* C32: a get_stock_price call whose feed invocation fails, with no data or
\* with an exception, leaves the price cache exactly as it was: a stale entry
\* of the symbol keeps its price and timestamp and no entry is created for a
\* symbol that had none; cache entries are written only by successful fetches.
C32_FailureKeepsCache == [][C32_FailedFetch /\ C32_WrittenByFetch]_vars

\* a failed lookup of a symbol whose stale entry is still in the cache
C32_Witness ==
    /\ result.op = "get_stock_price" /\ ~result.ok /\ result.feed_calls = 1
    /\ \E i \in 1..Len(stocks) :
          /\ stocks[i].symbol = result.error.symbol
          /\ now - stocks[i].timestamp >= DefaultMaxAge

====
